---- MODULE Spec2Model ----
(***************************************************************************)
(* A model of the scoring core of vitest-evals: the value comparators      *)
(* (strictEquals, fuzzyMatch), ToolCallScorer and StructuredOutputScorer.  *)
(*                                                                         *)
(* JavaScript values are tagged records:                                   *)
(*   [t |-> "undefined"], [t |-> "null"], [t |-> "boolean", b |-> TRUE],   *)
(*   [t |-> "number", n |-> 42, d |-> 1] (the rational n/d, d > 0, in      *)
(*   lowest terms), [t |-> "string", s |-> <<"a","b">>],                   *)
(*   [t |-> "array", a |-> <<v1, v2>>], [t |-> "object", o |-> [k |-> v]], *)
(*   [t |-> "regexp", re |-> name], [t |-> "function", f |-> name].        *)
(* A string is the sequence of its characters.  A score k/n is the         *)
(* fraction [num |-> k, den |-> n]; two quotients of small integers are    *)
(* the same double exactly when the fractions are equal.                   *)
(***************************************************************************)
EXTENDS Integers, Sequences, FiniteSets, TLC

\* ------------------------------------------------------------------------
\* Bounds of the model
\* ------------------------------------------------------------------------
MaxExpected == 2
MaxActual == 2
MaxArrayLen == 2
MaxText == 5
MaxScorers == 2

\* ------------------------------------------------------------------------
\* JavaScript values
\* ------------------------------------------------------------------------
Undefined == [t |-> "undefined"]
Null == [t |-> "null"]
Bool(b) == [t |-> "boolean", b |-> b]
Num(n) == [t |-> "number", n |-> n, d |-> 1]
Str(s) == [t |-> "string", s |-> s]
Arr(a) == [t |-> "array", a |-> a]
Obj(o) == [t |-> "object", o |-> o]
RegExp(re) == [t |-> "regexp", re |-> re]
Fn(f) == [t |-> "function", f |-> f]

EmptyObject == Obj([k \in {} |-> Undefined])

\* typeof v
TypeOf(v) ==
  CASE v.t \in {"null", "array", "object", "regexp"} -> "object"
    [] OTHER -> v.t

IsNullish(v) == v.t \in {"null", "undefined"}

\* v is falsy (used by `x || y` and by `if (x)`)
Falsy(v) ==
  \/ IsNullish(v)
  \/ v.t = "boolean" /\ ~v.b
  \/ v.t = "number" /\ ("nan" \in DOMAIN v \/ v.n = 0)
  \/ v.t = "string" /\ v.s = <<>>

\* The property name of array index i (i < 3 is all the model needs)
IndexKey(i) == CASE i = 0 -> "0" [] i = 1 -> "1" [] i = 2 -> "2" [] OTHER -> "3"

\* Object.keys(v), as a set: own enumerable property names
Keys(v) ==
  CASE v.t = "object" -> DOMAIN v.o
    [] v.t = "array" -> {IndexKey(i - 1) : i \in 1..Len(v.a)}
    [] v.t = "string" -> {IndexKey(i - 1) : i \in 1..Len(v.s)}
    [] OTHER -> {}

\* `k in v` for an object or array v (own properties and array length)
HasKey(v, k) ==
  CASE v.t = "object" -> k \in DOMAIN v.o
    [] v.t = "array" -> k \in Keys(v) \/ k = "length"
    [] OTHER -> FALSE

\* v[k] for a non-nullish v
Get(v, k) ==
  CASE v.t = "object" -> IF k \in DOMAIN v.o THEN v.o[k] ELSE Undefined
    [] v.t = "array" ->
         IF k = "length" THEN Num(Len(v.a))
         ELSE IF \E i \in 1..Len(v.a) : IndexKey(i - 1) = k
              THEN v.a[CHOOSE i \in 1..Len(v.a) : IndexKey(i - 1) = k]
              ELSE Undefined
    [] v.t = "string" ->
         IF k = "length" THEN Num(Len(v.s))
         ELSE IF \E i \in 1..Len(v.s) : IndexKey(i - 1) = k
              THEN Str(<<v.s[CHOOSE i \in 1..Len(v.s) : IndexKey(i - 1) = k]>>)
              ELSE Undefined
    [] OTHER -> Undefined

\* expected === actual.  Primitives compare by value (NaN equals nothing); a function is the same
\* reference when it is the same named function; arrays, objects and regular
\* expressions on the two sides are distinct references.
Identical(expected, actual) ==
  /\ expected.t = actual.t
  /\ expected.t \in {"undefined", "null", "boolean", "number", "string", "function"}
  /\ "nan" \notin DOMAIN expected
  /\ expected = actual

\* ------------------------------------------------------------------------
\* Strings and numbers
\* ------------------------------------------------------------------------
\* c.toLowerCase() of one character
LowerChar(c) ==
  CASE c = "A" -> "a" [] c = "B" -> "b" [] c = "C" -> "c" [] c = "T" -> "t"
    [] c = "R" -> "r" [] c = "U" -> "u" [] c = "E" -> "e" [] OTHER -> c

\* s.toLowerCase()
ToLowerCase(s) == [i \in 1..Len(s) |-> LowerChar(s[i])]

\* hay.includes(needle)
Includes(hay, needle) ==
  \E i \in 0..(Len(hay) - Len(needle)) : SubSeq(hay, i + 1, i + Len(needle)) = needle

IsDigit(c) == c \in {"0", "1", "2", "3", "4", "5", "6", "7", "8", "9"}

DigitVal(c) ==
  CASE c = "0" -> 0 [] c = "1" -> 1 [] c = "2" -> 2 [] c = "3" -> 3 [] c = "4" -> 4
    [] c = "5" -> 5 [] c = "6" -> 6 [] c = "7" -> 7 [] c = "8" -> 8 [] OTHER -> 9

NaN == [t |-> "number", nan |-> TRUE]

RECURSIVE DigitsValue(_, _)
\* the value of the longest run of digits at the start of s, after acc
DigitsValue(s, acc) ==
  IF s = <<>> \/ ~IsDigit(Head(s)) THEN acc
  ELSE DigitsValue(Tail(s), 10 * acc + DigitVal(Head(s)))

RECURSIVE TrimStart(_)
TrimStart(s) == IF s # <<>> /\ Head(s) = " " THEN TrimStart(Tail(s)) ELSE s

\* Number.parseFloat(s) for strings without a fraction or an exponent:
\* leading blanks, an optional sign, the longest run of digits; NaN if none.
ParseFloat(s) ==
  LET t == TrimStart(s)
      neg == t # <<>> /\ Head(t) = "-"
      u == IF t # <<>> /\ Head(t) \in {"-", "+"} THEN Tail(t) ELSE t
  IN IF u = <<>> \/ ~IsDigit(Head(u)) THEN NaN
     ELSE Num(IF neg THEN 0 - DigitsValue(u, 0) ELSE DigitsValue(u, 0))

Abs(n) == IF n < 0 THEN 0 - n ELSE n
Max(a, b) == IF a >= b THEN a ELSE b

RECURSIVE GCD(_, _)
GCD(a, b) == IF b = 0 THEN a ELSE GCD(b, a % b)

\* the number n/d (d > 0) in lowest terms
Rat(n, d) ==
  LET g == GCD(Abs(n), d)
  IN [t |-> "number", n |-> n \div g, d |-> d \div g]

\* x + y and x * y on numbers
Plus(x, y) == Rat(x.n * y.d + y.n * x.d, x.d * y.d)
Times(x, y) == Rat(x.n * y.n, x.d * y.d)

\* String(v) for a number: the decimal text of an integer (a fraction, which
\* no message of the model prints, is written n/d)
NumberText(v) ==
  IF v.d = 1 THEN ToString(v.n) ELSE ToString(v.n) \o "/" \o ToString(v.d)

\* ------------------------------------------------------------------------
\* Fuzzy options: a record holding any subset of the option fields;
\* numericTolerance is the fraction num/den
\* ------------------------------------------------------------------------
Opt(options, name, default) ==
  IF name \in DOMAIN options THEN options[name] ELSE default

NoOptions == [k \in {} |-> FALSE]

DefaultNumericTolerance == [num |-> 1, den |-> 1000]

\* { ...defaults, ...user }
Merge(defaults, user) ==
  [k \in (DOMAIN defaults) \cup (DOMAIN user) |->
     IF k \in DOMAIN user THEN user[k] ELSE defaults[k]]

\* ------------------------------------------------------------------------
\* Caller-supplied functions and patterns
\* ------------------------------------------------------------------------
\* pattern.test(s) for the patterns of the model: /^a/ and /b/
RegExpTest(re, s) ==
  CASE re = "startsWithA" -> s # <<>> /\ Head(s) = "a"
    [] OTHER -> Includes(s, <<"b">>)

\* validator(actual) for the validators of the model: v => typeof v ===
\* "string", v => v == null, and v => v != null
ApplyValidator(f, actual) ==
  CASE f = "isString" -> actual.t = "string"
    [] f = "isAbsent" -> IsNullish(actual)
    [] f = "nonEmpty" -> actual.t = "string" /\ Len(actual.s) > 0
    [] OTHER -> ~IsNullish(actual)

\* the elements of a finite set of strings as a list, each once
RECURSIVE ListOf(_)
ListOf(S) ==
  IF S = {} THEN <<>>
  ELSE LET x == CHOOSE y \in S : TRUE IN <<x>> \o ListOf(S \ {x})

\* no exception
NoError == "none"

\* what validator(actual) throws: the validator "nonEmpty" is
\* v => { if (v == null) throw new Error("absent"); return typeof v ===
\* "string" && v.length > 0 }, the other validators throw nothing
ValidatorError(f, actual) ==
  IF f = "nonEmpty" /\ IsNullish(actual) THEN "Error: absent" ELSE NoError

\* ------------------------------------------------------------------------
\* strictEquals
\* ------------------------------------------------------------------------
RECURSIVE strictEquals(_, _)
strictEquals(expected, actual) ==
  IF Identical(expected, actual) THEN TRUE
  ELSE IF IsNullish(expected) \/ IsNullish(actual) THEN FALSE
  ELSE IF TypeOf(expected) # TypeOf(actual) THEN FALSE
  ELSE IF expected.t = "array" THEN
    IF actual.t # "array" THEN FALSE
    ELSE IF Len(expected.a) # Len(actual.a) THEN FALSE
    ELSE \A i \in 1..Len(expected.a) : strictEquals(expected.a[i], actual.a[i])
  ELSE IF TypeOf(expected) = "object" THEN
    IF Cardinality(Keys(expected)) # Cardinality(Keys(actual)) THEN FALSE
    ELSE \A key \in Keys(expected) :
           HasKey(actual, key) /\ strictEquals(Get(expected, key), Get(actual, key))
  ELSE FALSE

\* ------------------------------------------------------------------------
\* fuzzyMatch and its helpers
\* ------------------------------------------------------------------------
fuzzyMatchString(expected, actual, options) ==
  LET caseInsensitive == Opt(options, "caseInsensitive", TRUE)
      substring == Opt(options, "substring", FALSE)
      expectedStr == IF caseInsensitive THEN ToLowerCase(expected) ELSE expected
      actualStr == IF caseInsensitive THEN ToLowerCase(actual) ELSE actual
  IN IF substring
     THEN Includes(actualStr, expectedStr) \/ Includes(expectedStr, actualStr)
     ELSE expectedStr = actualStr

\* the tolerance test with < in place of <=
fuzzyMatchNumber_Exclusive(expected, actual, options) ==
  LET numericTolerance == Opt(options, "numericTolerance", DefaultNumericTolerance)
  IN IF "nan" \in DOMAIN expected \/ "nan" \in DOMAIN actual THEN FALSE
     ELSE Abs(expected.n * actual.d - actual.n * expected.d) * numericTolerance.den
            < actual.d * Max(Abs(expected.n) * numericTolerance.num,
                             expected.d * numericTolerance.num)

\* |expected - actual| <= max(|expected| * tol, tol), with tol = num/den and
\* the numbers n/d, both sides multiplied by expected.d * actual.d * den; a
\* comparison with NaN is false
fuzzyMatchNumber(expected, actual, options) ==
  LET numericTolerance == Opt(options, "numericTolerance", DefaultNumericTolerance)
  IN IF "nan" \in DOMAIN expected \/ "nan" \in DOMAIN actual THEN FALSE
     ELSE Abs(expected.n * actual.d - actual.n * expected.d) * numericTolerance.den
            <= actual.d * Max(Abs(expected.n) * numericTolerance.num,
                              expected.d * numericTolerance.num)

fuzzyMatchWithCoercion(expected, actual, options) ==
  IF expected.t = "boolean" /\ actual.t = "string"
  THEN expected.b = (ToLowerCase(actual.s) = <<"t", "r", "u", "e">> \/ actual.s = <<"1">>)
  ELSE IF expected.t = "string" /\ actual.t = "number"
  THEN Identical(ParseFloat(expected.s), actual)
  ELSE IF expected.t = "number" /\ actual.t = "string"
  THEN Identical(expected, ParseFloat(actual.s))
  ELSE FALSE

RECURSIVE fuzzyMatch(_, _, _)
RECURSIVE fuzzyMatchArrayUnordered(_, _, _, _, _)

\* actualUsed[i] = true left out
MarkUsed_Forgotten(used, i) == used

\* actualUsed[i] = true
MarkUsed(used, i) == used \cup {i}

\* the scan for an unused matching actual item keeping the last one found
FirstUnusedMatch_Last(found) == CHOOSE i \in found : \A j \in found : i >= j

\* the actual item the for loop stops at: the first unused one that matches
FirstUnusedMatch(found) == CHOOSE i \in found : \A j \in found : i <= j

\* the ignoreArrayOrder branch: expected[idx..] against the actual items whose
\* index is not in used, each expected item taking the first unused match
fuzzyMatchArrayUnordered(expected, actual, options, idx, used) ==
  IF idx > Len(expected) THEN TRUE
  ELSE LET found == {i \in 1..Len(actual) :
                       i \notin used /\ fuzzyMatch(expected[idx], actual[i], options)}
       IN IF found = {} THEN FALSE
          ELSE fuzzyMatchArrayUnordered(expected, actual, options, idx + 1,
                 MarkUsed(used, FirstUnusedMatch(found)))

fuzzyMatchArray(expected, actual, options) ==
  IF Opt(options, "ignoreArrayOrder", TRUE)
  THEN fuzzyMatchArrayUnordered(expected, actual, options, 1, {})
  ELSE /\ Len(expected) = Len(actual)
       /\ \A i \in 1..Len(expected) : fuzzyMatch(expected[i], actual[i], options)

\* fuzzyMatchObject asking for the same number of keys on both sides
fuzzyMatchObject_SameKeys(expected, actual, options) ==
  /\ Cardinality(Keys(expected)) = Cardinality(Keys(actual))
  /\ \A k \in Keys(expected) :
       HasKey(actual, k) /\ fuzzyMatch(Get(expected, k), Get(actual, k), options)

fuzzyMatchObject(expected, actual, options) ==
  \A k \in Keys(expected) :
    HasKey(actual, k) /\ fuzzyMatch(Get(expected, k), Get(actual, k), options)

fuzzyMatch(expected, actual, options) ==
  IF expected.t = "regexp"
  THEN actual.t = "string" /\ RegExpTest(expected.re, actual.s)
  ELSE IF expected.t = "function" THEN ApplyValidator(expected.f, actual)
  ELSE IF IsNullish(expected) \/ IsNullish(actual) THEN Identical(expected, actual)
  ELSE IF expected.t = "string" /\ actual.t = "string"
  THEN fuzzyMatchString(expected.s, actual.s, options)
  ELSE IF expected.t = "number" /\ actual.t = "number"
  THEN fuzzyMatchNumber(expected, actual, options)
  ELSE IF expected.t = "array" /\ actual.t = "array"
  THEN fuzzyMatchArray(expected.a, actual.a, options)
  ELSE IF /\ TypeOf(expected) = "object" /\ TypeOf(actual) = "object"
          /\ expected.t # "array" /\ actual.t # "array"
  THEN fuzzyMatchObject(expected, actual, options)
  ELSE IF Opt(options, "coerceTypes", FALSE)
          /\ fuzzyMatchWithCoercion(expected, actual, options)
  THEN TRUE
  ELSE Identical(expected, actual)

\* ------------------------------------------------------------------------
\* What fuzzyMatch throws: it has no try, so the first exception of a
\* validator it calls leaves it.  The calls are made in the order of the code:
\* every() stops at the first item that does not match, the scan of the
\* unordered array comparison at the first unused item that matches.
\* ------------------------------------------------------------------------
RECURSIVE fuzzyMatchThrows(_, _, _)
RECURSIVE FirstErrorInOrder(_, _, _, _)
RECURSIVE fuzzyMatchArrayUnorderedError(_, _, _, _, _)

\* the one element of a set of one element: The({F(x) : x \in {v}}) is F of
\* the value of v, v evaluated once
The(S) == CHOOSE x \in S : TRUE

\* the pairs (expected item, actual item) the comparison of two arrays or of
\* two objects can hand to fuzzyMatch
ItemPairs(expected, actual) ==
  IF expected.t = "array"
  THEN {<<expected.a[i], actual.a[j]>> : i \in 1..Len(expected.a), j \in 1..Len(actual.a)}
  ELSE {<<Get(expected, k), Get(actual, k)>> : k \in {key \in Keys(expected) : HasKey(actual, key)}}

\* pairs.every(([e, a]) => fuzzyMatch(e, a, options)) from position idx on;
\* outcome[pair] is what fuzzyMatch does on the pair: the exception it ends
\* with (error) or the value it returns (value)
FirstErrorInOrder(pairs, present, idx, outcome) ==
  IF idx > Len(pairs) \/ ~present[idx] THEN NoError
  ELSE IF outcome[pairs[idx]].error # NoError THEN outcome[pairs[idx]].error
  ELSE IF ~outcome[pairs[idx]].value THEN NoError
  ELSE FirstErrorInOrder(pairs, present, idx + 1, outcome)

\* the unused actual items the scan for expected[idx] can end at: fuzzyMatch
\* throws there or returns true
ScanStops(expected, actual, idx, used, outcome) ==
  {i \in 1..Len(actual) \ used :
     \/ outcome[<<expected[idx], actual[i]>>].error # NoError
     \/ outcome[<<expected[idx], actual[i]>>].value}

\* the ignoreArrayOrder branch of fuzzyMatchArray from expected item idx on:
\* the scan ends at the first item of ScanStops, with its exception or with
\* the item marked used
fuzzyMatchArrayUnorderedError(expected, actual, idx, used, outcome) ==
  IF idx > Len(expected) \/ ScanStops(expected, actual, idx, used, outcome) = {} THEN NoError
  ELSE The({IF outcome[<<expected[idx], actual[i]>>].error # NoError
            THEN outcome[<<expected[idx], actual[i]>>].error
            ELSE fuzzyMatchArrayUnorderedError(expected, actual, idx + 1, MarkUsed(used, i), outcome) :
              i \in {CHOOSE j \in ScanStops(expected, actual, idx, used, outcome) :
                       \A k \in ScanStops(expected, actual, idx, used, outcome) : j <= k}})

\* the exception the comparison of two arrays or of two objects ends with;
\* the entries of an expected object are visited in the order ListOf gives
\* its keys
ContainerError(expected, actual, options, outcome) ==
  IF expected.t = "array"
  THEN IF Opt(options, "ignoreArrayOrder", TRUE)
       THEN fuzzyMatchArrayUnorderedError(expected.a, actual.a, 1, {}, outcome)
       ELSE IF Len(expected.a) # Len(actual.a) THEN NoError
       ELSE FirstErrorInOrder([i \in 1..Len(expected.a) |-> <<expected.a[i], actual.a[i]>>],
                              [i \in 1..Len(expected.a) |-> TRUE], 1, outcome)
  ELSE The({FirstErrorInOrder(
              [i \in 1..Len(keys) |-> <<Get(expected, keys[i]), Get(actual, keys[i])>>],
              [i \in 1..Len(keys) |-> HasKey(actual, keys[i])], 1, outcome) :
            keys \in {ListOf(Keys(expected))}})

\* the exception the body of fuzzyMatch ends with on the values expected and
\* actual, NoError if it returns
fuzzyMatchThrows(expected, actual, options) ==
  IF expected.t = "regexp" THEN NoError
  ELSE IF expected.t = "function" THEN ValidatorError(expected.f, actual)
  ELSE IF IsNullish(expected) \/ IsNullish(actual) THEN NoError
  ELSE IF \/ expected.t = "array" /\ actual.t = "array"
          \/ expected.t = "object" /\ actual.t = "object"
  THEN The({ContainerError(expected, actual, options, outcome) :
              outcome \in {[pair \in ItemPairs(expected, actual) |->
                             [error |-> fuzzyMatchThrows(pair[1], pair[2], options),
                              value |-> fuzzyMatch(pair[1], pair[2], options)]]}})
  ELSE NoError

\* the exception fuzzyMatch(expected, actual, options) ends with: the
\* arguments are evaluated once, at the call
fuzzyMatchError(expected, actual, options) ==
  The({fuzzyMatchThrows(e, a, options) : e \in {expected}, a \in {actual}})

\* ------------------------------------------------------------------------
\* createMatcher: a strategy is "strict", "fuzzy" or the name of a
\* caller-supplied comparison function
\* ------------------------------------------------------------------------
\* the caller-supplied comparison functions of the model: "hasR" is
\* (e, a) => "r" in a, "requiresR" is (e, a) => { if (!("r" in a)) throw new
\* Error("no r"); return a.r === 1 }
ApplyCustom(strategy, expected, actual) ==
  CASE strategy = "hasR" -> HasKey(actual, "r")
    [] strategy = "requiresR" -> Get(actual, "r") = Num(1)
    [] OTHER -> FALSE

\* what the caller-supplied comparison function throws
CustomError(strategy, expected, actual) ==
  IF strategy = "requiresR" /\ ~HasKey(actual, "r") THEN "Error: no r" ELSE NoError

createMatcher(strategy, options, expected, actual) ==
  IF strategy \notin {"strict", "fuzzy"} THEN ApplyCustom(strategy, expected, actual)
  ELSE IF strategy = "strict" THEN strictEquals(expected, actual)
  ELSE fuzzyMatch(expected, actual, options)

\* the exception the matcher createMatcher(strategy, options) ends with on
\* (expected, actual), NoError if it returns
createMatcherError(strategy, options, expected, actual) ==
  IF strategy \notin {"strict", "fuzzy"} THEN CustomError(strategy, expected, actual)
  ELSE IF strategy = "strict" THEN NoError
  ELSE fuzzyMatchError(expected, actual, options)

\* ------------------------------------------------------------------------
\* Scores
\* ------------------------------------------------------------------------
Frac(num, den) == [num |-> num, den |-> den]
Zero == Frac(0, 1)
One == Frac(1, 1)
FracEq(x, y) == x.num * y.den = y.num * x.den

\* what a scorer call produced: nothing yet, a Score, or a thrown error
NoResult == [status |-> "none"]
Returned(score, metadata, invoked) ==
  [status |-> "returned", score |-> score, metadata |-> metadata, invoked |-> invoked]
Threw(error) == [status |-> "threw", error |-> error]

\* what a function of the model other than a scorer returned
Answer(b) == [status |-> "returned", value |-> b]

\* the exception of a comparison function caught and turned into a 0.0
RejectedWith_AsZero(error) ==
  Returned(Zero, [rationale |-> [kind |-> "parse failure"], output |-> ""], {})

\* an exception of a comparison function inside the async scorer function:
\* nothing catches it, the promise of the call is rejected with it
RejectedWith(error) == Threw(error)

\* ------------------------------------------------------------------------
\* Message texts.  A rationale is kept as the record of the values its
\* template interpolates; RationaleText renders it as the template does.
\* ------------------------------------------------------------------------
RECURSIVE Text(_)
\* the string whose characters are the sequence s
Text(s) == IF s = <<>> THEN "" ELSE Head(s) \o Text(Tail(s))

RECURSIVE Join(_, _)
\* list.join(sep) for a list of strings
Join(list, sep) ==
  IF list = <<>> THEN ""
  ELSE IF Len(list) = 1 THEN list[1]
  ELSE list[1] \o sep \o Join(Tail(list), sep)

\* pattern.toString() for the patterns of the model
RegExpSource(re) == IF re = "startsWithA" THEN "/^a/" ELSE "/b/"

RECURSIVE JSONStringify(_)
\* JSON.stringify(v); an array slot that is undefined or a function prints as
\* null, an object property with such a value is left out
JSONStringify(v) ==
  CASE v.t = "null" -> "null"
    [] v.t = "boolean" -> IF v.b THEN "true" ELSE "false"
    [] v.t = "number" -> IF "nan" \in DOMAIN v THEN "null" ELSE NumberText(v)
    [] v.t = "string" -> "\"" \o Text(v.s) \o "\""
    [] v.t = "array" ->
         "[" \o Join([i \in 1..Len(v.a) |->
                        IF v.a[i].t \in {"undefined", "function"} THEN "null"
                        ELSE JSONStringify(v.a[i])], ",") \o "]"
    [] v.t = "object" ->
         "{" \o Join([i \in 1..Cardinality({k \in DOMAIN v.o :
                                              v.o[k].t \notin {"undefined", "function"}}) |->
                        LET k == ListOf({j \in DOMAIN v.o :
                                           v.o[j].t \notin {"undefined", "function"}})[i]
                        IN "\"" \o k \o "\":" \o JSONStringify(v.o[k])], ",") \o "}"
    [] OTHER -> "{}"

RECURSIVE TemplateText(_)
\* String(value), which is also `${value}`
TemplateText(value) ==
  CASE value.t = "string" -> Text(value.s)
    [] value.t = "array" -> Join([i \in 1..Len(value.a) |->
                                    IF IsNullish(value.a[i]) THEN ""
                                    ELSE TemplateText(value.a[i])], ",")
    [] value.t = "object" -> "[object Object]"
    [] value.t = "undefined" -> "undefined"
    [] value.t = "regexp" -> RegExpSource(value.re)
    [] value.t = "function" -> "function " \o value.f
    [] value.t = "number" -> IF "nan" \in DOMAIN value THEN "NaN" ELSE NumberText(value)
    [] OTHER -> JSONStringify(value)

\* formatValue(value)
formatValue(value) ==
  IF value.t = "undefined" THEN "undefined"
  ELSE IF value.t = "null" THEN "null"
  ELSE IF value.t = "regexp" THEN RegExpSource(value.re)
  ELSE IF value.t = "string" THEN "\"" \o Text(value.s) \o "\""
  ELSE IF TypeOf(value) = "object" THEN JSONStringify(value)
  ELSE TemplateText(value)

\* ------------------------------------------------------------------------
\* ToolCallScorer
\* ------------------------------------------------------------------------
\* options.argMatcher(expected, actual), argMatcher = createMatcher(params, fuzzyOptions)
argMatcher(options, expected, actual) ==
  createMatcher(options.params, options.fuzzyOptions, expected, actual)

\* the exception options.argMatcher(expected, actual) ends with
argMatcherError(options, expected, actual) ==
  createMatcherError(options.params, options.fuzzyOptions, expected, actual)

\* act.arguments || {}
ArgumentsOrEmpty(act) == IF Falsy(act.arguments) THEN EmptyObject ELSE act.arguments

\* names of the tools from position from (0-based) on: list.slice(from).map(t => t.name)
NamesFrom(list, from) == [i \in 1..(Len(list) - from) |-> list[from + i].name]

\* const partialScore = expectedIndex / expected.length, with one match too many
ArgumentMismatchScore_OffByOne(expectedIndex, expected) ==
  Frac(expectedIndex + 1, Len(expected))

\* const partialScore = expectedIndex / expected.length
ArgumentMismatchScore(expectedIndex, expected) == Frac(expectedIndex, Len(expected))

\* the skipped call left under the cursor
SkipExtra_Stuck(w) == w

\* actualIndex++ for a call that is not the expected tool
SkipExtra(w) == [w EXCEPT !.actualIndex = w.actualIndex + 1]

\* One iteration of the while loop of evaluateOrderedTools on the walk state
\* w = [expectedIndex, actualIndex, invoked, result]
OrderedStep(expected, actual, options, w) ==
  LET exp == expected[w.expectedIndex + 1]
      act == actual[w.actualIndex + 1]
      checked == exp.arguments # Undefined
      call == [expected |-> exp.arguments, actual |-> ArgumentsOrEmpty(act)]
      invoked == IF exp.name = act.name /\ checked
                 THEN w.invoked \cup {call} ELSE w.invoked
  IN IF exp.name = act.name
     THEN IF checked /\ argMatcherError(options, call.expected, call.actual) # NoError
          THEN [w EXCEPT !.invoked = invoked,
                  !.result = RejectedWith(argMatcherError(options, call.expected, call.actual))]
          ELSE IF checked /\ ~argMatcher(options, call.expected, call.actual)
          THEN [w EXCEPT !.invoked = invoked,
                  !.result = Returned(ArgumentMismatchScore(w.expectedIndex, expected),
                    [rationale |-> [kind |-> "incorrect arguments", tool |-> exp.name,
                                    position |-> w.expectedIndex + 1,
                                    matched |-> w.expectedIndex,
                                    total |-> Len(expected)],
                     expected |-> exp.arguments,
                     actual |-> act.arguments,
                     matched |-> w.expectedIndex,
                     total |-> Len(expected)], invoked)]
          ELSE [w EXCEPT !.invoked = invoked,
                  !.expectedIndex = w.expectedIndex + 1,
                  !.actualIndex = w.actualIndex + 1]
     ELSE IF options.allowExtras
          THEN SkipExtra(w)
          ELSE [w EXCEPT !.result = Returned(Zero,
                  [rationale |-> [kind |-> "wrong tool", expected |-> exp.name,
                                  position |-> w.expectedIndex + 1, found |-> act.name]],
                  w.invoked)]

\* totalCount > 0 ? matchedCount / totalCount : 1.0, counting the missing
\* items instead of the matched ones
OrderedPartialScore_Missing(matchedCount, totalCount) ==
  IF totalCount > 0 THEN Frac(totalCount - matchedCount, totalCount) ELSE One

\* const score = totalCount > 0 ? matchedCount / totalCount : 1.0
OrderedPartialScore(matchedCount, totalCount) ==
  IF totalCount > 0 THEN Frac(matchedCount, totalCount) ELSE One

\* !options.allowExtras && actualIndex < actual.length, with the flag inverted
TrailingExtrasRejected_Inverted(actual, options, w) ==
  options.allowExtras /\ w.actualIndex < Len(actual)

\* !options.allowExtras && actualIndex < actual.length
TrailingExtrasRejected(actual, options, w) ==
  ~options.allowExtras /\ w.actualIndex < Len(actual)

\* The statements after the loop of evaluateOrderedTools
OrderedFinish(expected, actual, options, w) ==
  IF w.expectedIndex < Len(expected)
  THEN LET missing == NamesFrom(expected, w.expectedIndex)
       IN IF options.requireAllTools
          THEN Returned(Zero, [rationale |-> [kind |-> "missing in sequence",
                                              missing |-> missing]], w.invoked)
          ELSE Returned(OrderedPartialScore(w.expectedIndex, Len(expected)),
                 [rationale |-> [kind |-> "partial match", matched |-> w.expectedIndex,
                                 total |-> Len(expected), missing |-> missing],
                  matched |-> w.expectedIndex,
                  total |-> Len(expected)], w.invoked)
  ELSE IF TrailingExtrasRejected(actual, options, w)
  THEN Returned(Zero, [rationale |-> [kind |-> "unexpected extra",
                                      extra |-> NamesFrom(actual, w.actualIndex)]], w.invoked)
  ELSE Returned(One, [rationale |-> [kind |-> "all in order"]], w.invoked)

OrderedStart == [expectedIndex |-> 0, actualIndex |-> 0, invoked |-> {}, result |-> NoResult]

\* the loop condition of evaluateOrderedTools
OrderedContinues(expected, actual, w) ==
  /\ w.result = NoResult
  /\ w.expectedIndex < Len(expected)
  /\ w.actualIndex < Len(actual)

RECURSIVE OrderedWalk(_, _, _, _)
OrderedWalk(expected, actual, options, w) ==
  IF OrderedContinues(expected, actual, w)
  THEN The({OrderedWalk(expected, actual, options, next) :
              next \in {OrderedStep(expected, actual, options, w)}})
  ELSE w

evaluateOrderedTools(expected, actual, options) ==
  The({IF w.result # NoResult THEN w.result
       ELSE OrderedFinish(expected, actual, options, w) :
         w \in {OrderedWalk(expected, actual, options, OrderedStart)}})

\* list.splice(k, 1) with a 1-based k
RemoveAt(list, k) == SubSeq(list, 1, k - 1) \o SubSeq(list, k + 1, Len(list))

\* the findIndex callback without the test for absent expected arguments
ToolMatches_AlwaysChecked(options, expectedTool, actualTool) ==
  IF expectedTool.name # actualTool.name THEN FALSE
  ELSE argMatcher(options, expectedTool.arguments, ArgumentsOrEmpty(actualTool))

\* the findIndex callback of evaluateUnorderedTools
ToolMatches(options, expectedTool, actualTool) ==
  IF expectedTool.name # actualTool.name THEN FALSE
  ELSE IF expectedTool.arguments # Undefined
  THEN argMatcher(options, expectedTool.arguments, ArgumentsOrEmpty(actualTool))
  ELSE TRUE

\* remainingActual.findIndex(...), 1-based, 0 when there is none
FindMatchIndex(options, expectedTool, remainingActual) ==
  LET found == {j \in 1..Len(remainingActual) :
                  ToolMatches(options, expectedTool, remainingActual[j])}
  IN IF found = {} THEN 0 ELSE CHOOSE j \in found : \A k \in found : j <= k

\* the exception the findIndex callback ends with on one actual call
ToolMatchesError(options, expectedTool, actualTool) ==
  IF expectedTool.name = actualTool.name /\ expectedTool.arguments # Undefined
  THEN argMatcherError(options, expectedTool.arguments, ArgumentsOrEmpty(actualTool))
  ELSE NoError

\* the position, 1-based, of the first call of remainingActual on which the
\* findIndex callback throws, 0 when there is none
FindThrowIndex(options, expectedTool, remainingActual) ==
  LET found == {j \in 1..Len(remainingActual) :
                  ToolMatchesError(options, expectedTool, remainingActual[j]) # NoError}
  IN IF found = {} THEN 0 ELSE CHOOSE j \in found : \A k \in found : j <= k

\* remainingActual.splice(matchIndex, 1) left out
ConsumeActual_Kept(remainingActual, matchIndex) == remainingActual

\* if (matchIndex !== -1) remainingActual.splice(matchIndex, 1)
ConsumeActual(remainingActual, matchIndex) ==
  IF matchIndex # 0 THEN RemoveAt(remainingActual, matchIndex) ELSE remainingActual

\* One iteration of the for loop of evaluateUnorderedTools on the state
\* u = [i, remainingExpected, remainingActual, invoked, error], i as in the
\* code, error the exception that ended the loop
UnorderedStep(options, u) ==
  LET expectedTool == u.remainingExpected[u.i + 1]
      throwIndex == FindThrowIndex(options, expectedTool, u.remainingActual)
      foundIndex == FindMatchIndex(options, expectedTool, u.remainingActual)
      thrown == throwIndex # 0 /\ (foundIndex = 0 \/ throwIndex < foundIndex)
      matchIndex == IF thrown THEN 0 ELSE foundIndex
      last == IF thrown THEN throwIndex
              ELSE IF matchIndex = 0 THEN Len(u.remainingActual) ELSE matchIndex
      calls == {[expected |-> expectedTool.arguments,
                 actual |-> ArgumentsOrEmpty(u.remainingActual[j])] :
                   j \in {k \in 1..last :
                            /\ u.remainingActual[k].name = expectedTool.name
                            /\ expectedTool.arguments # Undefined}}
  IN [i |-> u.i - 1,
      remainingExpected |-> IF matchIndex # 0 THEN RemoveAt(u.remainingExpected, u.i + 1)
                            ELSE u.remainingExpected,
      remainingActual |-> ConsumeActual(u.remainingActual, matchIndex),
      invoked |-> u.invoked \cup calls,
      error |-> IF thrown
                THEN ToolMatchesError(options, expectedTool, u.remainingActual[throwIndex])
                ELSE NoError]

UnorderedStart(expected, actual) ==
  [i |-> Len(expected) - 1, remainingExpected |-> expected,
   remainingActual |-> actual, invoked |-> {}, error |-> NoError]

RECURSIVE UnorderedLoop(_, _)
UnorderedLoop(options, u) ==
  IF u.i >= 0 /\ u.error = NoError
  THEN The({UnorderedLoop(options, next) : next \in {UnorderedStep(options, u)}})
  ELSE u

\* the issue pushed for one tool left in remainingExpected
MissingIssue(actual, missingTool) ==
  IF missingTool.arguments # Undefined
     /\ \E j \in 1..Len(actual) : actual[j].name = missingTool.name
  THEN [kind |-> "incorrect arguments", tool |-> missingTool.name]
  ELSE [kind |-> "missing", tool |-> missingTool.name]

\* expected.length - remainingExpected.length, reading the wrong remainder
ExpectedMatched_WrongList(expected, u) == Len(expected) - Len(u.remainingActual)

\* const expectedMatched = expected.length - remainingExpected.length
ExpectedMatched(expected, u) == Len(expected) - Len(u.remainingExpected)

\* The statements after the loop of evaluateUnorderedTools
UnorderedFinish(expected, actual, options, u) ==
  LET missingIssues == [k \in 1..Len(u.remainingExpected) |->
                          MissingIssue(actual, u.remainingExpected[k])]
      extraTools == NamesFrom(u.remainingActual, 0)
      issues == IF ~options.allowExtras /\ Len(extraTools) > 0
                THEN Append(missingIssues, [kind |-> "unexpected extra", extra |-> extraTools])
                ELSE missingIssues
      expectedMatched == ExpectedMatched(expected, u)
      score == IF Len(expected) > 0 THEN Frac(expectedMatched, Len(expected)) ELSE One
  IN IF Len(issues) > 0 /\ (options.requireAllTools \/ ~options.allowExtras)
     THEN Returned(Zero, [rationale |-> [kind |-> "issues", issues |-> issues]], u.invoked)
     ELSE IF FracEq(score, One)
     THEN Returned(One, [rationale |-> [kind |-> "all called", extra |-> extraTools]], u.invoked)
     ELSE Returned(score, [rationale |-> [kind |-> "issues", issues |-> issues],
                           matched |-> expectedMatched,
                           total |-> Len(expected)], u.invoked)

evaluateUnorderedTools(expected, actual, options) ==
  The({IF u.error # NoError THEN RejectedWith(u.error)
       ELSE UnorderedFinish(expected, actual, options, u) :
         u \in {UnorderedLoop(options, UnorderedStart(expected, actual))}})

\* defaultFuzzyOptions of ToolCallScorer
ToolDefaultFuzzyOptions ==
  [substring |-> TRUE, caseInsensitive |-> TRUE, ignoreArrayOrder |-> TRUE,
   numericTolerance |-> DefaultNumericTolerance, coerceTypes |-> FALSE]

\* the options ToolCallScorer(config) hands to the two evaluate functions:
\* the argument matcher createMatcher(params, {...defaults, ...fuzzyOptions})
\* and the two flags
EvaluateOptions(config) ==
  [params |-> config.params,
   fuzzyOptions |-> Merge(ToolDefaultFuzzyOptions, config.fuzzyOptions),
   allowExtras |-> config.allowExtras,
   requireAllTools |-> config.requireAll]

\* opts.expectedTools || []
ExpectedToolsOf(opts) == IF opts.hasExpectedTools THEN opts.expectedTools ELSE <<>>

\* opts.toolCalls || []
ActualCallsOf(opts) == IF opts.hasToolCalls THEN opts.toolCalls ELSE <<>>

\* ToolCallScorer with the two early returns in the other order
ToolCallScorer_ActualFirst(config, opts) ==
  LET expectedTools == ExpectedToolsOf(opts)
      actualCalls == ActualCallsOf(opts)
      options == EvaluateOptions(config)
  IN IF Len(actualCalls) = 0
     THEN Returned(Zero, [rationale |-> [kind |-> "none called",
                                         expected |-> Len(expectedTools)]], {})
     ELSE IF Len(expectedTools) = 0
     THEN Returned(One, [rationale |-> [kind |-> "none expected"]], {})
     ELSE IF config.ordered
     THEN evaluateOrderedTools(expectedTools, actualCalls, options)
     ELSE evaluateUnorderedTools(expectedTools, actualCalls, options)

\* The scorer ToolCallScorer(config) applied to opts.
\* config = [ordered, requireAll, allowExtras, params, fuzzyOptions];
\* opts = [hasExpectedTools, expectedTools, hasToolCalls, toolCalls]
ToolCallScorer(config, opts) ==
  The({IF Len(expectedTools) = 0
       THEN Returned(One, [rationale |-> [kind |-> "none expected"]], {})
       ELSE IF Len(actualCalls) = 0
       THEN Returned(Zero, [rationale |-> [kind |-> "none called",
                                           expected |-> Len(expectedTools)]], {})
       ELSE IF config.ordered
       THEN evaluateOrderedTools(expectedTools, actualCalls, options)
       ELSE evaluateUnorderedTools(expectedTools, actualCalls, options) :
         expectedTools \in {ExpectedToolsOf(opts)},
         actualCalls \in {ActualCallsOf(opts)},
         options \in {EvaluateOptions(config)}})

\* ------------------------------------------------------------------------
\* StructuredOutputScorer
\* ------------------------------------------------------------------------
\* JSON.parse(output) on the output texts of the model: the parsed value, or
\* a SyntaxError
ParseError == [t |-> "SyntaxError"]

JSONParse(output) ==
  CASE output = "{\"name\":\"test\",\"value\":42}" ->
         Obj([name |-> Str(<<"t", "e", "s", "t">>), value |-> Num(42)])
    [] output = "{\"name\":\"Test\",\"value\":42}" ->
         Obj([name |-> Str(<<"T", "e", "s", "t">>), value |-> Num(42)])
    [] output = "{\"name\":\"test\"}" ->
         Obj([name |-> Str(<<"t", "e", "s", "t">>)])
    [] output = "{\"name\":\"test\",\"value\":42,\"extra\":true}" ->
         Obj([name |-> Str(<<"t", "e", "s", "t">>), value |-> Num(42), extra |-> Bool(TRUE)])
    [] output = "{\"name\":\"test\",\"value\":\"42\"}" ->
         Obj([name |-> Str(<<"t", "e", "s", "t">>), value |-> Str(<<"4", "2">>)])
    [] output = "{\"error\":\"boom\",\"name\":\"test\",\"value\":42}" ->
         Obj([error |-> Str(<<"b", "o", "o", "m">>),
              name |-> Str(<<"t", "e", "s", "t">>), value |-> Num(42)])
    [] output = "{\"error\":\"\",\"name\":\"test\",\"value\":42}" ->
         Obj([error |-> Str(<<>>), name |-> Str(<<"t", "e", "s", "t">>), value |-> Num(42)])
    [] output = "{\"error\":null,\"name\":\"test\"}" ->
         Obj([error |-> Null, name |-> Str(<<"t", "e", "s", "t">>)])
    [] output = "{\"error\":0,\"name\":\"test\",\"value\":42}" ->
         Obj([error |-> Num(0), name |-> Str(<<"t", "e", "s", "t">>), value |-> Num(42)])
    [] output = "{\"name\":\"tester\",\"tags\":[\"a\",\"b\"],\"enabled\":\"true\"}" ->
         Obj([name |-> Str(<<"t", "e", "s", "t", "e", "r">>),
              tags |-> Arr(<<Str(<<"a">>), Str(<<"b">>)>>),
              enabled |-> Str(<<"t", "r", "u", "e">>)])
    [] output = "{}" -> EmptyObject
    [] output = "null" -> Null
    [] output = "42" -> Num(42)
    [] output = "true" -> Bool(TRUE)
    [] output = "\"test\"" -> Str(<<"t", "e", "s", "t">>)
    [] output = "[42]" -> Arr(<<Num(42)>>)
    [] OTHER -> ParseError

\* the test for extra fields with the flag ignored
DisallowedExtras_Ignored(config, extras) == FALSE

\* !allowExtras && extras.length > 0
DisallowedExtras(config, extras) == ~config.allowExtras /\ extras # {}

\* the Score of the catch block, with the output left out of the metadata
ParseFailure_NoOutput(output) ==
  Returned(Zero, [rationale |-> [kind |-> "parse failure"], output |-> ""], {})

\* the Score returned by the catch block around JSON.parse
ParseFailure(output) ==
  Returned(Zero, [rationale |-> [kind |-> "parse failure"], output |-> output], {})

\* the caller-supplied (expected, actual, key) => boolean functions of the
\* model: "valueIsNumber" accepts any number for the key "value" and
\* compares the other keys strictly
ApplyFieldCustom(match, expectedValue, actualValue, key) ==
  CASE match = "valueIsNumber" ->
         IF key = "value" THEN actualValue.t = "number"
         ELSE strictEquals(expectedValue, actualValue)
    [] match = "numberOnly" -> Identical(expectedValue, actualValue)
    [] OTHER -> FALSE

\* what the caller-supplied (expected, actual, key) function throws:
\* "numberOnly" is (e, a, key) => { if (typeof a !== "number") throw new
\* Error("not a number"); return e === a }
FieldCustomError(match, expectedValue, actualValue, key) ==
  IF match = "numberOnly" /\ actualValue.t # "number" THEN "Error: not a number"
  ELSE NoError

\* the default of fuzzyOptions replaced by the defaults ToolCallScorer uses
\* for substring
StructuredDefaultFuzzyOptions_Substring == [substring |-> TRUE]

\* fuzzyOptions = {}: the default of the config's fuzzyOptions
StructuredDefaultFuzzyOptions == NoOptions

\* fieldMatcher(expectedValue, actualValue, key)
fieldMatcher(config, expectedValue, actualValue, key) ==
  IF config.match \notin {"strict", "fuzzy"}
  THEN ApplyFieldCustom(config.match, expectedValue, actualValue, key)
  ELSE createMatcher(config.match,
                     IF config.fuzzyOptions = NoOptions THEN StructuredDefaultFuzzyOptions
                     ELSE config.fuzzyOptions,
                     expectedValue, actualValue)

\* the exception fieldMatcher(expectedValue, actualValue, key) ends with
fieldMatcherError(config, expectedValue, actualValue, key) ==
  IF config.match \notin {"strict", "fuzzy"}
  THEN FieldCustomError(config.match, expectedValue, actualValue, key)
  ELSE createMatcherError(config.match,
                          IF config.fuzzyOptions = NoOptions THEN StructuredDefaultFuzzyOptions
                          ELSE config.fuzzyOptions,
                          expectedValue, actualValue)

\* the expected entries whose comparison with the parsed output gave `wanted`,
\* in order: the matches (wanted = TRUE) or the mismatches (wanted = FALSE)
RECURSIVE SelectEntries(_, _, _, _)
SelectEntries(config, parsed, list, wanted) ==
  IF list = <<>> THEN <<>>
  ELSE LET e == Head(list)
           isMatch == fieldMatcher(config, e.value, Get(parsed, e.key), e.key)
           rest == SelectEntries(config, parsed, Tail(list), wanted)
       IN IF isMatch = wanted
          THEN <<[key |-> e.key, expected |-> e.value, actual |-> Get(parsed, e.key)]>> \o rest
          ELSE rest

\* The scorer StructuredOutputScorer(config) applied to opts.
\* config = [match, requireAll, allowExtras, errorField, fuzzyOptions], errorField
\* = [isNull, name]; opts = [hasExpected, expected, output], expected the list
\* of the [key, value] entries of opts.expected in Object.entries order.  The
\* third component of the result is the set of the fieldMatcher calls made.
StructuredOutputScorer(config, opts) ==
  LET expected == IF opts.hasExpected THEN opts.expected ELSE <<>>
      parsed == JSONParse(opts.output)
      expectedKeys == {expected[i].key : i \in 1..Len(expected)}
      errorValue == Get(parsed, config.errorField.name)
      matches == SelectEntries(config, parsed, expected, TRUE)
      mismatches == SelectEntries(config, parsed, expected, FALSE)
      extras == Keys(parsed) \ expectedKeys
      compared == {[key |-> expected[i].key, expected |-> expected[i].value,
                    actual |-> Get(parsed, expected[i].key)] : i \in 1..Len(expected)}
      throwing == {i \in 1..Len(expected) :
                     fieldMatcherError(config, expected[i].value,
                                       Get(parsed, expected[i].key), expected[i].key) # NoError}
      firstThrowing == CHOOSE i \in throwing : \A j \in throwing : i <= j
      totalExpected == Len(expected)
      totalMatched == Len(matches)
      score == IF totalExpected > 0 THEN Frac(totalMatched, totalExpected) ELSE One
  IN IF parsed = ParseError
     THEN ParseFailure(opts.output)
     ELSE IF Len(expected) = 0
     THEN Returned(One, [rationale |-> [kind |-> "valid JSON"]], {})
     ELSE IF IsNullish(parsed)
     THEN Threw("TypeError")
     ELSE IF /\ ~config.errorField.isNull
             /\ ~Falsy(errorValue)
             /\ errorValue # Str(<<>>)
             /\ errorValue # Null
     THEN Returned(Zero, [rationale |-> [kind |-> "output error", error |-> errorValue],
                          output |-> opts.output], {})
     ELSE IF throwing # {}
     THEN RejectedWith(fieldMatcherError(config, expected[firstThrowing].value,
                                         Get(parsed, expected[firstThrowing].key),
                                         expected[firstThrowing].key))
     ELSE IF config.requireAll /\ Len(mismatches) > 0
     THEN Returned(Zero, [rationale |-> [kind |-> "missing required fields",
                                         mismatches |-> mismatches]], compared)
     ELSE IF DisallowedExtras(config, extras)
     THEN Returned(Zero, [rationale |-> [kind |-> "unexpected extra fields",
                                         extras |-> extras]], compared)
     ELSE IF FracEq(score, One)
     THEN Returned(One, [rationale |-> [kind |-> "all fields match", extras |-> extras]], compared)
     ELSE Returned(score, [rationale |-> [kind |-> "partial fields", matched |-> totalMatched,
                                          total |-> totalExpected, mismatches |-> mismatches],
                           matched |-> totalMatched,
                           total |-> totalExpected], compared)

\* ------------------------------------------------------------------------
\* The rationale strings
\* ------------------------------------------------------------------------
\* an issue of evaluateUnorderedTools pushed as the empty string
IssueText_Blank(issue) == ""

\* the string evaluateUnorderedTools pushes to issues
IssueText(issue) ==
  CASE issue.kind = "incorrect arguments" ->
         "Tool '" \o issue.tool \o "' called but with incorrect arguments"
    [] issue.kind = "missing" -> "Missing required tool: " \o issue.tool
    [] OTHER -> "Unexpected extra tools: " \o Join(issue.extra, ", ")

\* `${m.key}: expected ${formatValue(m.expected)}, got ${formatValue(m.actual)}`
MismatchDetail(m) ==
  m.key \o ": expected " \o formatValue(m.expected) \o ", got " \o formatValue(m.actual)

\* mismatches.map(...).join("; ")
MismatchDetails(mismatches) ==
  Join([i \in 1..Len(mismatches) |-> MismatchDetail(mismatches[i])], "; ")

\* ` (plus extra…: ${extras.join(", ")})`, or nothing without extras
ExtraInfo(label, extras) ==
  IF Len(extras) > 0 THEN " (plus " \o label \o ": " \o Join(extras, ", ") \o ")" ELSE ""

\* metadata.rationale of a ToolCallScorer Score
ToolRationaleText(r) ==
  CASE r.kind = "none expected" -> "No tool calls expected"
    [] r.kind = "none called" ->
         "Expected " \o ToString(r.expected) \o " tool(s) but none were called"
    [] r.kind = "incorrect arguments" ->
         "Tool '" \o r.tool \o "' called with incorrect arguments at position "
           \o ToString(r.position) \o " (" \o ToString(r.matched) \o "/"
           \o ToString(r.total) \o " tools matched correctly)"
    [] r.kind = "wrong tool" ->
         "Expected '" \o r.expected \o "' at position " \o ToString(r.position)
           \o " but found '" \o r.found \o "'"
    [] r.kind = "missing in sequence" ->
         "Missing required tools in sequence: " \o Join(r.missing, ", ")
    [] r.kind = "partial match" ->
         "Partial match: " \o ToString(r.matched) \o "/" \o ToString(r.total)
           \o " tools called in order (missing: " \o Join(r.missing, ", ") \o ")"
    [] r.kind = "unexpected extra" -> "Unexpected extra tools: " \o Join(r.extra, ", ")
    [] r.kind = "all in order" ->
         "All tools called in expected order with correct arguments"
    [] r.kind = "all called" ->
         "All expected tools were called" \o ExtraInfo("extra", r.extra)
    [] OTHER -> Join([i \in 1..Len(r.issues) |-> IssueText(r.issues[i])], "; ")

\* metadata.rationale of a StructuredOutputScorer Score
StructuredRationaleText(r) ==
  CASE r.kind = "parse failure" -> "Failed to parse output as JSON: SyntaxError"
    [] r.kind = "valid JSON" -> "Valid JSON output (no expected fields specified)"
    [] r.kind = "output error" -> "Output contains error: " \o TemplateText(r.error)
    [] r.kind = "missing required fields" ->
         "Missing required fields: "
           \o Join([i \in 1..Len(r.mismatches) |-> r.mismatches[i].key], ", ")
           \o " - " \o MismatchDetails(r.mismatches)
    [] r.kind = "unexpected extra fields" ->
         "Unexpected extra fields: " \o Join(ListOf(r.extras), ", ")
    [] r.kind = "all fields match" ->
         "All expected fields match" \o ExtraInfo("extra fields", ListOf(r.extras))
    [] OTHER ->
         "Matched " \o ToString(r.matched) \o "/" \o ToString(r.total)
           \o " fields - " \o MismatchDetails(r.mismatches)

\* ------------------------------------------------------------------------
\* describeEval and toEval.  A Score's score is null or a fraction; a scorer
\* of the model is [name, sync, outcome]: sync tells whether it returns its
\* Score (or throws) in the call itself or through a promise, outcome is
\* [failed, score].  avgScore is a fraction too, 0/0 standing for NaN.
\* ------------------------------------------------------------------------
NullScore == [isNull |-> TRUE, num |-> 0, den |-> 1]
NumberScore(num, den) == [isNull |-> FALSE, num |-> num, den |-> den]

\* score ?? 0
OrZero(score) == IF score.isNull THEN Frac(0, 1) ELSE Frac(score.num, score.den)

\* a + b
FracPlus(a, b) ==
  IF a.den = 0 \/ b.den = 0 THEN Frac(0, 0)
  ELSE Frac(a.num * b.den + b.num * a.den, a.den * b.den)

\* a / n for an array length n: 0 / 0 is NaN
FracOver(a, n) == IF a.den = 0 \/ (n = 0 /\ a.num = 0) THEN Frac(0, 0) ELSE Frac(a.num, a.den * n)

\* a >= b, false when either side is NaN
FracGeq(a, b) == a.den # 0 /\ b.den # 0 /\ a.num * b.den >= b.num * a.den

\* a < b, false when either side is NaN
FracLess(a, b) == a.den # 0 /\ b.den # 0 /\ a.num * b.den < b.num * a.den

\* scores.reduce((acc, s) => acc + (s.score ?? 0), 0)
RECURSIVE SumOfScores(_)
SumOfScores(scores) ==
  IF scores = <<>> THEN Frac(0, 1)
  ELSE FracPlus(SumOfScores(SubSeq(scores, 1, Len(scores) - 1)), OrZero(scores[Len(scores)]))

\* scores.reduce(...) / scores.length
AvgScore(scores) == FracOver(SumOfScores(scores), Len(scores))

\* the threshold parameter: left out, null, or a number
ThresholdUndefined == [given |-> "undefined", num |-> 0, den |-> 1]
ThresholdNull == [given |-> "null", num |-> 0, den |-> 1]
ThresholdNumber(num, den) == [given |-> "number", num |-> num, den |-> den]

\* threshold = 1.0 in the parameter list
ThresholdOrDefault(threshold) ==
  IF threshold.given = "undefined" THEN ThresholdNumber(1, 1) ELSE threshold

\* if (threshold)
ThresholdIsTruthy(threshold) == threshold.given = "number" /\ threshold.num # 0

\* the number a threshold is compared as: null compares as 0
ThresholdValue(threshold) == Frac(threshold.num, threshold.den)

\* scores.sort((a, b) => (a.score ?? 0) - (b.score ?? 0)): the array itself
\* is sorted, equal scores keep their order
RECURSIVE SortByScore(_)
SortByScore(scores) ==
  IF Len(scores) <= 1 THEN scores
  ELSE LET sorted == SortByScore(SubSeq(scores, 1, Len(scores) - 1))
           last == scores[Len(scores)]
           before == {i \in 1..Len(sorted) :
                        ~FracLess(OrZero(last.score), OrZero(sorted[i].score))}
           k == Cardinality({i \in 1..Len(sorted) : \A j \in 1..i : j \in before})
       IN SubSeq(sorted, 1, k) \o <<last>> \o SubSeq(sorted, k + 1, Len(sorted))

\* the array formatScores leaves behind: its argument, sorted in place
formatScores(scores) == SortByScore(scores)

\* the array Promise.all resolves to, filled in the order the scorers finished
CollectScores_InCompletionOrder(e) ==
  [k \in 1..Len(e.order) |-> e.scorers[e.order[k]].outcome.score]

\* the array Promise.all resolves to: the value of the i-th promise at i
CollectScores(e) == [i \in 1..Len(e.scorers) |-> e.scorers[i].outcome.score]

\* scores.map((s, i) => ({...s, name: scorers[i].name}))
ScoresWithName(e, scores) ==
  [i \in 1..Len(scores) |-> [name |-> e.scorers[i].name, score |-> scores[i]]]

\* the statements of the test body after await Promise.all(...), on the
\* state e of the body: meta.eval is assigned, then, for a truthy threshold,
\* the arguments of assert are evaluated (formatScores sorts scoresWithName,
\* the array meta.eval.scores refers to) and assert passes or throws
Aggregate(e) ==
  LET scores == CollectScores(e)
      scoresWithName == ScoresWithName(e, scores)
      avgScore == AvgScore(scores)
      threshold == ThresholdOrDefault(e.threshold)
  IN [e EXCEPT !.pc = "done",
               !.collected = scores,
               !.meta = [set |-> TRUE,
                         scores |-> IF ThresholdIsTruthy(threshold)
                                    THEN formatScores(scoresWithName)
                                    ELSE scoresWithName,
                         avgScore |-> avgScore],
               !.test = IF ThresholdIsTruthy(threshold)
                           /\ ~FracGeq(avgScore, ThresholdValue(threshold))
                        THEN "failed" ELSE "passed"]

\* toEval(input, expected, taskFn, scoreFn, threshold) with the first scorer
\* of e as scoreFn: pass, or the exception of the scorer
toEval(e) ==
  LET outcome == e.scorers[1].outcome
      threshold == ThresholdOrDefault(e.threshold)
  IN IF outcome.failed THEN Threw("scorer error")
     ELSE Answer(FracGeq(OrZero(outcome.score), ThresholdValue(threshold)))

\* ------------------------------------------------------------------------
\* wrapText.  A text is the sequence of its characters; the white space of
\* the model is the space, and "\n" is the line break of the result.
\* ------------------------------------------------------------------------
Space == " "
LineBreak == "\n"

\* the positions of the spaces of text
SpacesOf(text) == {i \in 1..Len(text) : text[i] = Space}

\* text.split(/\s+/): the pieces between the runs of white space, the empty
\* piece before a leading run and after a trailing run included
RECURSIVE SplitOnSpaces(_)
SplitOnSpaces(text) ==
  IF SpacesOf(text) = {} THEN <<text>>
  ELSE LET i == CHOOSE k \in SpacesOf(text) : \A m \in SpacesOf(text) : k <= m
           after == {k \in (i + 1)..Len(text) : text[k] # Space}
       IN IF after = {} THEN <<SubSeq(text, 1, i - 1), <<>>>>
          ELSE LET j == CHOOSE k \in after : \A m \in after : k <= m
               IN <<SubSeq(text, 1, i - 1)>> \o SplitOnSpaces(SubSeq(text, j, Len(text)))

\* line.trim()
RECURSIVE Trim(_)
Trim(line) ==
  IF line = <<>> THEN line
  ELSE IF Head(line) = Space THEN Trim(Tail(line))
  ELSE IF line[Len(line)] = Space THEN Trim(SubSeq(line, 1, Len(line) - 1))
  ELSE line

\* lines.join("\n")
RECURSIVE JoinLines(_)
JoinLines(lines) ==
  IF lines = <<>> THEN <<>>
  ELSE IF Len(lines) = 1 THEN lines[1]
  ELSE lines[1] \o <<LineBreak>> \o JoinLines(Tail(lines))

\* the test for a new line without the + 1 for the separating space
StartsNewLine_NoSeparator(currentLine, word, width) ==
  Len(currentLine) + Len(word) > width

\* currentLine.length + word.length + 1 > width
StartsNewLine(currentLine, word, width) ==
  Len(currentLine) + Len(word) + 1 > width

\* the for loop of wrapText over words from position idx on, and the
\* statements after it
RECURSIVE WrapWords(_, _, _, _, _)
WrapWords(words, idx, lines, currentLine, width) ==
  IF idx > Len(words)
  THEN JoinLines(IF currentLine # <<>> THEN Append(lines, currentLine) ELSE lines)
  ELSE LET word == words[idx]
       IN IF StartsNewLine(currentLine, word, width)
          THEN WrapWords(words, idx + 1, Append(lines, Trim(currentLine)), word, width)
          ELSE WrapWords(words, idx + 1, lines,
                         currentLine \o (IF currentLine # <<>> THEN <<Space>> ELSE <<>>) \o word,
                         width)

wrapText(text, width) ==
  IF text = <<>> \/ Len(text) <= width THEN text
  ELSE WrapWords(SplitOnSpaces(text), 1, <<>>, <<>>, width)

\* ------------------------------------------------------------------------
\* The inputs of the model
\* ------------------------------------------------------------------------
ToolNames == {"search", "format"}

ArgQ == Obj([q |-> Str(<<"b">>), t |-> Arr(<<Str(<<"x">>), Str(<<"y">>)>>)])
ArgQR == Obj([q |-> Str(<<"A", "B">>), r |-> Num(1), t |-> Arr(<<Str(<<"y">>), Str(<<"x">>)>>)])

\* arguments of an expected tool: absent, or {q: "b"}
ExpectedArguments == {Undefined, ArgQ}
\* arguments of an actual call: {q: "b"}, {q: "AB", r: 1}, or absent
ActualArguments == {ArgQ, ArgQR, Undefined}

\* how arguments are matched: strictly, fuzzily, or by the caller's
\* (expected, actual) => "r" in actual
MatchStrategies == {"strict", "fuzzy", "hasR", "requiresR"}

ExpectedToolItems == [name : ToolNames, arguments : ExpectedArguments]
ToolCallItems == [name : ToolNames, arguments : ActualArguments]

SeqsUpTo(S, n) == UNION {[1..k -> S] : k \in 0..n}

ToolConfigs ==
  [requireAll : BOOLEAN, allowExtras : BOOLEAN, params : MatchStrategies,
   fuzzyOptions : {NoOptions}]

\* expectedTools and toolCalls may each be missing from opts
ToolOpts ==
  {[hasExpectedTools |-> he, expectedTools |-> e, hasToolCalls |-> ha, toolCalls |-> a] :
     he \in BOOLEAN, ha \in BOOLEAN,
     e \in SeqsUpTo(ExpectedToolItems, MaxExpected), a \in SeqsUpTo(ToolCallItems, MaxActual)}
  \ {o \in [hasExpectedTools : BOOLEAN, expectedTools : SeqsUpTo(ExpectedToolItems, MaxExpected),
            hasToolCalls : BOOLEAN, toolCalls : SeqsUpTo(ToolCallItems, MaxActual)] :
       \/ ~o.hasExpectedTools /\ o.expectedTools # <<>>
       \/ ~o.hasToolCalls /\ o.toolCalls # <<>>}

OutputTexts ==
  {"{\"name\":\"test\",\"value\":42}", "{\"name\":\"Test\",\"value\":42}",
   "{\"name\":\"test\"}", "{\"name\":\"test\",\"value\":42,\"extra\":true}",
   "{\"name\":\"test\",\"value\":\"42\"}",
   "{\"error\":\"boom\",\"name\":\"test\",\"value\":42}",
   "{\"error\":\"\",\"name\":\"test\",\"value\":42}",
   "{\"error\":null,\"name\":\"test\"}",
   "{\"error\":0,\"name\":\"test\",\"value\":42}",
   "{\"name\":\"tester\",\"tags\":[\"a\",\"b\"],\"enabled\":\"true\"}",
   "{}", "null", "42", "true", "\"test\"", "[42]",
   "", "not json", "{name: test}"}

ExpectedFieldLists ==
  {<<>>,
   <<[key |-> "name", value |-> Str(<<"t", "e", "s", "t">>)]>>,
   <<[key |-> "value", value |-> Num(42)]>>,
   <<[key |-> "name", value |-> Str(<<"t", "e", "s", "t">>)], [key |-> "value", value |-> Num(42)]>>,
   <<[key |-> "name", value |-> Str(<<"t", "e", "s", "t">>)], [key |-> "value", value |-> Num(42)],
     [key |-> "extra", value |-> Undefined]>>,
   <<[key |-> "length", value |-> Num(1)]>>,
   <<[key |-> "tags", value |-> Arr(<<Str(<<"b">>), Str(<<"a">>)>>)]>>,
   <<[key |-> "enabled", value |-> Bool(TRUE)]>>,
   <<[key |-> "name", value |-> Fn("nonEmpty")]>>}

StructuredConfigs ==
  [match : {"strict", "fuzzy", "valueIsNumber", "numberOnly"}, requireAll : BOOLEAN, allowExtras : BOOLEAN,
   errorField : {[isNull |-> FALSE, name |-> "error"], [isNull |-> TRUE, name |-> "error"]},
   fuzzyOptions : {NoOptions}]

StructuredOpts ==
  {[hasExpected |-> h, expected |-> e, output |-> o] :
     h \in BOOLEAN, e \in ExpectedFieldLists, o \in OutputTexts}
  \ {x \in [hasExpected : BOOLEAN, expected : ExpectedFieldLists, output : OutputTexts] :
       ~x.hasExpected /\ x.expected # <<>>}

\* ------------------------------------------------------------------------
\* State
\* ------------------------------------------------------------------------
VARIABLES
  scorer,       \* which scorer the test case is for
  toolConfig,   \* the configuration the two ToolCallScorers were built with, but for `ordered`
  toolOpts,     \* the test case handed to the ToolCallScorers
  toolScore,    \* toolScore[ordered]: what ToolCallScorer({...toolConfig, ordered}) returned
  soConfig,     \* the configuration the StructuredOutputScorer was built with
  soOpts,       \* the test case handed to the StructuredOutputScorer
  soScore,      \* what StructuredOutputScorer(soConfig) returned
  cmp,          \* a pair of values handed to the comparators with fuzzy options, and
                \* what strictEquals and fuzzyMatch returned for the pair as given
                \* (swapped = FALSE) and with the two arguments exchanged
  ev,           \* one test body of describeEval: its scorers and threshold, how far
                \* the body got, the promises of the scorers, and testTask.meta.eval
  wrap,         \* a text and a width handed to wrapText, and what it returned
  walk          \* a call of ToolCallScorer({...toolConfig, ordered: true}) taken one
                \* loop iteration at a time: the walk state of evaluateOrderedTools, the
                \* position pc, the pairs <<expected position, actual position>>
                \* matched so far, and the number of loop iterations made

vars == <<scorer, toolConfig, toolOpts, toolScore, soConfig, soOpts, soScore, walk, cmp, ev, wrap>>

\* ------------------------------------------------------------------------
\* Calls of the scorers, each call one step
\* ------------------------------------------------------------------------
WithOrdered(config, ordered) ==
  [ordered |-> ordered, requireAll |-> config.requireAll,
   allowExtras |-> config.allowExtras, params |-> config.params,
   fuzzyOptions |-> config.fuzzyOptions]

\* the values of the variables a test case does not use
NoToolConfig == [requireAll |-> TRUE, allowExtras |-> TRUE, params |-> "strict",
                 fuzzyOptions |-> NoOptions]
NoToolOpts == [hasExpectedTools |-> FALSE, expectedTools |-> <<>>,
               hasToolCalls |-> FALSE, toolCalls |-> <<>>]
NoStructuredConfig == [match |-> "strict", requireAll |-> TRUE, allowExtras |-> TRUE,
                       errorField |-> [isNull |-> FALSE, name |-> "error"],
                       fuzzyOptions |-> NoOptions]
NoStructuredOpts == [hasExpected |-> FALSE, expected |-> <<>>, output |-> ""]
NoWalk == [pc |-> "idle", expectedIndex |-> 0, actualIndex |-> 0, invoked |-> {},
           result |-> NoResult, pairs |-> {}, iterations |-> 0]
NewCmp(expected, actual, options) ==
  [expected |-> expected, actual |-> actual, options |-> options,
   strict |-> [swapped \in BOOLEAN |-> NoResult],
   fuzzy |-> [swapped \in BOOLEAN |-> NoResult]]
NoCmp == NewCmp(Undefined, Undefined, NoOptions)
NoEval == [pc |-> "idle"]
NewWrap(text, width) == [text |-> text, width |-> width, result |-> NoResult]
NoWrap == NewWrap(<<>>, 0)

ToolInit ==
  /\ scorer = "ToolCallScorer"
  /\ toolConfig \in ToolConfigs
  /\ toolOpts \in ToolOpts
  /\ toolScore = [ordered \in BOOLEAN |-> NoResult]
  /\ soConfig = NoStructuredConfig
  /\ soOpts = NoStructuredOpts
  /\ soScore = NoResult
  /\ walk = NoWalk
  /\ cmp = NoCmp
  /\ ev = NoEval
  /\ wrap = NoWrap

StructuredInit ==
  /\ scorer = "StructuredOutputScorer"
  /\ soConfig \in StructuredConfigs
  /\ soOpts \in StructuredOpts
  /\ soScore = NoResult
  /\ toolConfig = NoToolConfig
  /\ toolOpts = NoToolOpts
  /\ toolScore = [ordered \in BOOLEAN |-> NoResult]
  /\ walk = NoWalk
  /\ cmp = NoCmp
  /\ ev = NoEval
  /\ wrap = NoWrap

Init == ToolInit \/ StructuredInit

\* await ToolCallScorer({...toolConfig, ordered})(toolOpts)
InvokeToolCallScorer(ordered) ==
  /\ scorer = "ToolCallScorer"
  /\ toolScore[ordered] = NoResult
  /\ toolScore' = [toolScore EXCEPT
                     ![ordered] = ToolCallScorer(WithOrdered(toolConfig, ordered), toolOpts)]
  /\ UNCHANGED <<scorer, toolConfig, toolOpts, soConfig, soOpts, soScore, walk, cmp, ev, wrap>>

\* await StructuredOutputScorer(soConfig)(soOpts)
InvokeStructuredOutputScorer ==
  /\ scorer = "StructuredOutputScorer"
  /\ soScore = NoResult
  /\ soScore' = StructuredOutputScorer(soConfig, soOpts)
  /\ UNCHANGED <<scorer, toolConfig, toolOpts, toolScore, soConfig, soOpts, walk, cmp, ev, wrap>>

Next ==
  \/ \E ordered \in BOOLEAN : InvokeToolCallScorer(ordered)
  \/ InvokeStructuredOutputScorer

Spec == Init /\ [][Next]_vars

\* ------------------------------------------------------------------------
\* A call of ToolCallScorer({...toolConfig, ordered: true}), one loop
\* iteration of evaluateOrderedTools per step
\* ------------------------------------------------------------------------
Expected == ExpectedToolsOf(toolOpts)
Actual == ActualCallsOf(toolOpts)
Options == EvaluateOptions(toolConfig)

\* the statements of ToolCallScorer before the loop
WalkEnter ==
  /\ scorer = "ToolCallScorer"
  /\ walk.pc = "idle"
  /\ walk' = IF Len(Expected) = 0 \/ Len(Actual) = 0
             THEN [walk EXCEPT !.pc = "done",
                     !.result = ToolCallScorer(WithOrdered(toolConfig, TRUE), toolOpts)]
             ELSE [walk EXCEPT !.pc = "loop"]
  /\ UNCHANGED <<scorer, toolConfig, toolOpts, toolScore, soConfig, soOpts, soScore, cmp, ev, wrap>>

\* one iteration of the while loop
WalkStep ==
  /\ walk.pc = "loop"
  /\ OrderedContinues(Expected, Actual, walk)
  /\ \E expected \in {Expected}, actual \in {Actual}, options \in {Options} :
       \E w \in {OrderedStep(expected, actual, options, walk)} :
         walk' = [w EXCEPT
                    !.pc = IF w.result # NoResult THEN "done" ELSE "loop",
                    !.iterations = walk.iterations + 1,
                    !.pairs = IF w.expectedIndex > walk.expectedIndex
                              THEN walk.pairs \cup {<<walk.expectedIndex + 1, walk.actualIndex + 1>>}
                              ELSE walk.pairs]
  /\ UNCHANGED <<scorer, toolConfig, toolOpts, toolScore, soConfig, soOpts, soScore, cmp, ev, wrap>>

\* the statements after the loop
WalkExit ==
  /\ walk.pc = "loop"
  /\ ~OrderedContinues(Expected, Actual, walk)
  /\ walk' = [walk EXCEPT !.pc = "done",
                !.result = OrderedFinish(Expected, Actual, Options, walk)]
  /\ UNCHANGED <<scorer, toolConfig, toolOpts, toolScore, soConfig, soOpts, soScore, cmp, ev, wrap>>

WalkNext == WalkEnter \/ WalkStep \/ WalkExit

WalkSpec == ToolInit /\ [][WalkNext]_vars

\* the call is not suspended between its statements: the function has no
\* await, so a statement that can run does run
WalkLiveSpec == WalkSpec /\ WF_vars(WalkNext)

\* the step-by-step call returns what the call in one step returns
WalkReturnsScore ==
  walk.pc = "done" => walk.result = ToolCallScorer(WithOrdered(toolConfig, TRUE), toolOpts)

\* ------------------------------------------------------------------------
\* Calls of the comparators on a pair of values, each call one step
\* ------------------------------------------------------------------------
\* values built from null, undefined, booleans, numbers, strings, arrays and
\* plain objects
DataValues ==
  {Undefined, Null, Bool(TRUE), Bool(FALSE), Num(0), Num(1), NaN,
   Str(<<>>), Str(<<"a">>),
   Arr(<<>>), Arr(<<Num(1)>>), Arr(<<EmptyObject>>), Arr(<<Arr(<<>>)>>),
   EmptyObject, Obj([a |-> Num(1)]), Obj([k \in {"0"} |-> Num(1)]),
   Obj([a |-> Arr(<<>>)]), Obj([a |-> EmptyObject])}

\* patterns and validator functions
MatcherValues ==
  {RegExp("startsWithA"), Fn("isString"), Fn("isAbsent"), Fn("isPresent")}

CompareValues == DataValues \cup MatcherValues

\* option records: none given, or all five given
FuzzyOptionSets ==
  {NoOptions} \cup
  [substring : BOOLEAN, caseInsensitive : BOOLEAN, ignoreArrayOrder : BOOLEAN,
   coerceTypes : BOOLEAN, numericTolerance : {DefaultNumericTolerance, [num |-> 0, den |-> 1]}]

\* the expected objects E of the subset comparisons
FuzzyObjects ==
  {EmptyObject,
   Obj([a |-> Num(1)]),
   Obj([s |-> Str(<<"a", "B">>), u |-> Undefined]),
   Obj([n |-> Obj([a |-> Num(1), z |-> Null])]),
   Obj([l |-> Arr(<<Str(<<"a", "b">>), Str(<<"a">>), Num(1)>>)]),
   Obj([l |-> Arr(<<EmptyObject, Obj([a |-> Bool(TRUE)])>>)]),
   Obj([p |-> RegExp("startsWithA")]),
   Obj([f |-> Fn("isString")]),
   Obj([n |-> Obj([p |-> RegExp("contains b")])])}

ExtraKey == "extra"

\* the object E with one more key
WithExtraKey(E, v) ==
  Obj([k \in DOMAIN E.o \cup {ExtraKey} |-> IF k = ExtraKey THEN v ELSE E.o[k]])

\* tolerances and expected numbers of the boundary comparisons; all are
\* sums of powers of two, so the products and sums below are exact in
\* double arithmetic as well
Tolerances ==
  {[num |-> 1, den |-> 4], [num |-> 1, den |-> 2], [num |-> 1, den |-> 1], [num |-> 2, den |-> 1]}
BoundaryExpected ==
  {Rat(0 - 2, 1), Rat(0 - 3, 2), Rat(0 - 1, 1), Rat(0 - 1, 2), Num(0),
   Rat(1, 4), Rat(1, 2), Num(1), Rat(3, 2), Num(2)}

\* e + e * t and e + e * t * 1.0001
AtTolerance(e, t) == Plus(e, Times(e, Rat(t.num, t.den)))
BeyondTolerance(e, t) ==
  Plus(e, Times(Times(e, Rat(t.num, t.den)), Rat(10001, 10000)))

ComparePairs ==
  {NewCmp(e, a, o) : e \in CompareValues, a \in CompareValues,
                     o \in {NoOptions, [coerceTypes |-> TRUE]}}

SubsetPairs ==
  {NewCmp(E, WithExtraKey(E, v), o) :
     E \in FuzzyObjects, v \in {Num(1), Undefined}, o \in FuzzyOptionSets}

\* arrays of at most MaxArrayLen items compared as a whole
ArrayItems == {Str(<<"a">>), Str(<<"a", "b">>), EmptyObject, Obj([a |-> Num(1)])}
ArrayValues == {Arr(a) : a \in SeqsUpTo(ArrayItems, MaxArrayLen)}
ArrayPairs ==
  {NewCmp(e, a, o) : e \in ArrayValues, a \in ArrayValues,
                     o \in {NoOptions, [substring |-> TRUE], [ignoreArrayOrder |-> FALSE]}}

BoundaryPairs ==
  UNION {{NewCmp(e, AtTolerance(e, t), [numericTolerance |-> t]),
          NewCmp(e, BeyondTolerance(e, t), [numericTolerance |-> t])} :
           e \in BoundaryExpected, t \in Tolerances}

CompareInit ==
  /\ scorer = "comparators"
  /\ cmp \in ComparePairs \cup SubsetPairs \cup BoundaryPairs \cup ArrayPairs
  /\ toolConfig = NoToolConfig
  /\ toolOpts = NoToolOpts
  /\ toolScore = [ordered \in BOOLEAN |-> NoResult]
  /\ soConfig = NoStructuredConfig
  /\ soOpts = NoStructuredOpts
  /\ soScore = NoResult
  /\ walk = NoWalk
  /\ ev = NoEval
  /\ wrap = NoWrap

\* strictEquals(expected, actual), or strictEquals(actual, expected)
CallStrictEquals(swapped) ==
  /\ scorer = "comparators"
  /\ cmp.strict[swapped] = NoResult
  /\ cmp' = [cmp EXCEPT !.strict[swapped] =
               Answer(IF swapped THEN strictEquals(cmp.actual, cmp.expected)
                      ELSE strictEquals(cmp.expected, cmp.actual))]
  /\ UNCHANGED <<scorer, toolConfig, toolOpts, toolScore, soConfig, soOpts, soScore, walk, ev, wrap>>

\* fuzzyMatch(expected, actual, options), or fuzzyMatch(actual, expected, options)
CallFuzzyMatch(swapped) ==
  /\ scorer = "comparators"
  /\ cmp.fuzzy[swapped] = NoResult
  /\ cmp' = [cmp EXCEPT !.fuzzy[swapped] =
               Answer(IF swapped THEN fuzzyMatch(cmp.actual, cmp.expected, cmp.options)
                      ELSE fuzzyMatch(cmp.expected, cmp.actual, cmp.options))]
  /\ UNCHANGED <<scorer, toolConfig, toolOpts, toolScore, soConfig, soOpts, soScore, walk, ev, wrap>>

CompareNext ==
  \/ \E swapped \in BOOLEAN : CallStrictEquals(swapped)
  \/ \E swapped \in BOOLEAN : CallFuzzyMatch(swapped)

CompareSpec == CompareInit /\ [][CompareNext]_vars

\* ------------------------------------------------------------------------
\* One test body of describeEval with at most MaxScorers scorers.  The body
\* runs to its await without interruption (StartScorer for each scorer in
\* turn, then AwaitAll); promises settle while it waits; it resumes when
\* Promise.all is fulfilled (ResumeFulfilled) or rejected (ResumeRejected).
\* ------------------------------------------------------------------------
ScoreValues == {NullScore, NumberScore(0, 1), NumberScore(1, 2), NumberScore(1, 1)}
Outcomes ==
  {[failed |-> FALSE, score |-> v] : v \in ScoreValues}
    \cup {[failed |-> TRUE, score |-> NullScore]}
ScorerNames == <<"first", "second", "third", "fourth">>
ScorerLists ==
  {[i \in 1..Len(l) |-> [name |-> ScorerNames[i], sync |-> l[i].sync, outcome |-> l[i].outcome]] :
     l \in SeqsUpTo([sync : BOOLEAN, outcome : Outcomes], MaxScorers)}
Thresholds ==
  {ThresholdUndefined, ThresholdNull, ThresholdNumber(0, 1), ThresholdNumber(1, 2),
   ThresholdNumber(1, 1)}
TaskOutput == "task output"

NoMeta == [set |-> FALSE, scores |-> <<>>, avgScore |-> Frac(0, 1)]

NewEval(scorers, threshold) ==
  [pc |-> "map", scorers |-> scorers, threshold |-> threshold, output |-> TaskOutput,
   seen |-> <<>>, promise |-> <<>>, order |-> <<>>, collected |-> <<>>,
   meta |-> NoMeta, test |-> "running", toEval |-> NoResult]

EvalInit ==
  /\ scorer = "describeEval"
  /\ ev \in {NewEval(l, t) : l \in ScorerLists, t \in Thresholds}
  /\ toolConfig = NoToolConfig
  /\ toolOpts = NoToolOpts
  /\ toolScore = [ordered \in BOOLEAN |-> NoResult]
  /\ soConfig = NoStructuredConfig
  /\ soOpts = NoStructuredOpts
  /\ soScore = NoResult
  /\ walk = NoWalk
  /\ cmp = NoCmp
  /\ wrap = NoWrap

EvalUnchanged ==
  UNCHANGED <<scorer, toolConfig, toolOpts, toolScore, soConfig, soOpts, soScore, walk,
              cmp, wrap>>

\* the callback of scorers.map on the next scorer: the scorer is called with
\* the task output; a scorer that answers in the call leaves a fulfilled
\* promise or, if it throws, ends the test body
StartScorer ==
  /\ scorer = "describeEval"
  /\ ev.pc = "map"
  /\ Len(ev.seen) < Len(ev.scorers)
  /\ LET i == Len(ev.seen) + 1
         s == ev.scorers[i]
     IN ev' = IF s.sync /\ s.outcome.failed
              THEN [ev EXCEPT !.pc = "done", !.test = "failed",
                              !.seen = Append(ev.seen, ev.output)]
              ELSE [ev EXCEPT !.seen = Append(ev.seen, ev.output),
                              !.promise = Append(ev.promise,
                                                 IF s.sync THEN "fulfilled" ELSE "pending"),
                              !.order = IF s.sync THEN Append(ev.order, i) ELSE ev.order]
  /\ EvalUnchanged

\* await Promise.all(...) once map has called every scorer
AwaitAll ==
  /\ scorer = "describeEval"
  /\ ev.pc = "map"
  /\ Len(ev.seen) = Len(ev.scorers)
  /\ ev' = [ev EXCEPT !.pc = "await"]
  /\ EvalUnchanged

\* the promise of scorer i settles
SettleScorer(i) ==
  /\ scorer = "describeEval"
  /\ ev.pc \in {"await", "done"}
  /\ i \in 1..Len(ev.promise)
  /\ ev.promise[i] = "pending"
  /\ ev' = [ev EXCEPT !.promise[i] = IF ev.scorers[i].outcome.failed THEN "rejected"
                                     ELSE "fulfilled",
                      !.order = Append(ev.order, i)]
  /\ EvalUnchanged

\* Promise.all is fulfilled: the body goes on to its end
ResumeFulfilled ==
  /\ scorer = "describeEval"
  /\ ev.pc = "await"
  /\ \A i \in 1..Len(ev.promise) : ev.promise[i] = "fulfilled"
  /\ ev' = Aggregate(ev)
  /\ EvalUnchanged

\* Promise.all is rejected: the await throws and the test fails
ResumeRejected ==
  /\ scorer = "describeEval"
  /\ ev.pc = "await"
  /\ \E i \in 1..Len(ev.promise) : ev.promise[i] = "rejected"
  /\ ev' = [ev EXCEPT !.pc = "done", !.test = "failed"]
  /\ EvalUnchanged

\* expect(input).toEval(expected, task, scorers[0], threshold)
CallToEval ==
  /\ scorer = "describeEval"
  /\ Len(ev.scorers) > 0
  /\ ev.toEval = NoResult
  /\ ev' = [ev EXCEPT !.toEval = toEval(ev)]
  /\ EvalUnchanged

EvalNext ==
  \/ StartScorer
  \/ AwaitAll
  \/ \E i \in 1..MaxScorers : SettleScorer(i)
  \/ ResumeFulfilled
  \/ ResumeRejected
  \/ CallToEval

EvalSpec == EvalInit /\ [][EvalNext]_vars

\* ------------------------------------------------------------------------
\* wrapText on texts of at most MaxText characters
\* ------------------------------------------------------------------------
TextChars == {"a", "b", Space}
Texts == SeqsUpTo(TextChars, MaxText)
Widths == {2, 3}

WrapInit ==
  /\ scorer = "wrapText"
  /\ wrap \in {NewWrap(text, width) : text \in Texts, width \in Widths}
  /\ toolConfig = NoToolConfig
  /\ toolOpts = NoToolOpts
  /\ toolScore = [ordered \in BOOLEAN |-> NoResult]
  /\ soConfig = NoStructuredConfig
  /\ soOpts = NoStructuredOpts
  /\ soScore = NoResult
  /\ walk = NoWalk
  /\ cmp = NoCmp
  /\ ev = NoEval

\* wrapText(text, width)
CallWrapText ==
  /\ scorer = "wrapText"
  /\ wrap.result = NoResult
  /\ wrap' = [wrap EXCEPT !.result = Answer(wrapText(wrap.text, wrap.width))]
  /\ UNCHANGED <<scorer, toolConfig, toolOpts, toolScore, soConfig, soOpts, soScore, walk,
                 cmp, ev>>

WrapNext == CallWrapText

WrapSpec == WrapInit /\ [][WrapNext]_vars

\* ------------------------------------------------------------------------
\* Properties
\* ------------------------------------------------------------------------
IsReturned(r) == r.status = "returned"

\* actual[i] has the name of expected[i] and satisfies its arguments under
\* the configured matcher, at every position of two lists of one length
PerfectlyOrdered ==
  /\ Len(Expected) = Len(Actual)
  /\ \A i \in 1..Len(Expected) :
       /\ Expected[i].name = Actual[i].name
       /\ \/ Expected[i].arguments = Undefined
          \/ argMatcher(Options, Expected[i].arguments, ArgumentsOrEmpty(Actual[i]))

NameOnly == \A i \in 1..Len(Expected) : Expected[i].arguments = Undefined

\* what the unordered loop leaves of the two lists
UnorderedRemainder == UnorderedLoop(Options, UnorderedStart(Expected, Actual))

\* C1: when the actual calls match the expected tools position by position
\* (same length, same names, arguments accepted by the matcher or not
\* expected), the score is 1.0 with ordered:true and with ordered:false.
C1_PerfectOrderScoresOne ==
  (scorer = "ToolCallScorer" /\ PerfectlyOrdered) =>
    \A ordered \in BOOLEAN :
      IsReturned(toolScore[ordered]) => FracEq(toolScore[ordered].score, One)

\* C2: in unordered mode with non-empty lists the score is 0.0 when
\* (allowExtras is false and an actual call is left unconsumed) or
\* (requireAll is true and an expected item is unmatched), and is
\* matchedCount/totalExpected in every other case.
C2_UnorderedScore ==
  (/\ scorer = "ToolCallScorer"
   /\ IsReturned(toolScore[FALSE])
   /\ Len(Expected) > 0
   /\ Len(Actual) > 0) =>
    LET u == UnorderedRemainder
        matchedCount == Len(Expected) - Len(u.remainingExpected)
        hardFailure == \/ ~toolConfig.allowExtras /\ Len(u.remainingActual) > 0
                       \/ toolConfig.requireAll /\ Len(u.remainingExpected) > 0
    IN IF hardFailure
       THEN FracEq(toolScore[FALSE].score, Zero)
       ELSE FracEq(toolScore[FALSE].score, Frac(matchedCount, Len(Expected)))

\* C3: for name-only expected tools and actual calls that are a non-empty
\* proper prefix of the expected list, ordered:true and ordered:false give
\* the same score, whatever requireAll and allowExtras are.
C3_OrderedFlagOrthogonal ==
  (/\ scorer = "ToolCallScorer"
   /\ NameOnly
   /\ Len(Actual) >= 1
   /\ Len(Actual) < Len(Expected)
   /\ \A i \in 1..Len(Actual) : Actual[i].name = Expected[i].name
   /\ IsReturned(toolScore[TRUE])
   /\ IsReturned(toolScore[FALSE])) =>
    FracEq(toolScore[TRUE].score, toolScore[FALSE].score)

\* the call at the cursor of the ordered walk has the name of the current
\* expected item
NameMatchesAtCursor ==
  Expected[walk.expectedIndex + 1].name = Actual[walk.actualIndex + 1].name

\* the arguments of the call at the cursor fail the matcher: it returns false
ArgumentsFailAtCursor ==
  /\ Expected[walk.expectedIndex + 1].arguments # Undefined
  /\ argMatcherError(Options, Expected[walk.expectedIndex + 1].arguments,
                     ArgumentsOrEmpty(Actual[walk.actualIndex + 1])) = NoError
  /\ ~argMatcher(Options, Expected[walk.expectedIndex + 1].arguments,
                 ArgumentsOrEmpty(Actual[walk.actualIndex + 1]))

InLoop == walk.pc = "loop" /\ OrderedContinues(Expected, Actual, walk)

\* C4: in ordered mode, when the call at the cursor has the name of the
\* current expected item and its arguments fail the matcher, the next step
\* returns the score k/len(expected), metadata matched = k and total =
\* len(expected) and a rationale citing position k+1, k being the number of
\* expected items matched so far; requireAll, allowExtras and the calls that
\* follow play no part.
C4_ArgumentMismatchPartialCredit ==
  [][(InLoop /\ NameMatchesAtCursor /\ ArgumentsFailAtCursor) =>
       LET k == Cardinality(walk.pairs)
       IN /\ walk'.pc = "done"
          /\ IsReturned(walk'.result)
          /\ walk'.result.score = Frac(k, Len(Expected))
          /\ walk'.result.metadata.matched = k
          /\ walk'.result.metadata.total = Len(Expected)
          /\ walk'.result.metadata.rationale.kind = "incorrect arguments"
          /\ walk'.result.metadata.rationale.position = k + 1]_vars

C4_Witness ==
  /\ walk.pc = "done"
  /\ IsReturned(walk.result)
  /\ walk.result.metadata.rationale.kind = "incorrect arguments"
  /\ walk.result.score = Frac(1, 2)
  /\ walk.pairs = {<<1, 1>>}
  /\ toolConfig.requireAll
  /\ ~toolConfig.allowExtras

\* the ordered walk ended because the actual list ran out while expected
\* items were left
ActualExhausted ==
  /\ walk.pc = "done"
  /\ Len(Actual) > 0
  /\ walk.actualIndex = Len(Actual)
  /\ walk.expectedIndex < Len(Expected)

\* C5: in ordered mode, when the actual list is exhausted while expected
\* items remain, the score is 0.0 if requireAll and matched/total (with
\* metadata matched and total) otherwise, matched being the number of
\* expected items the walk consumed.
C5_ExhaustedActual ==
  ActualExhausted =>
    /\ IsReturned(walk.result)
    /\ IF toolConfig.requireAll
       THEN walk.result.score = Zero
       ELSE /\ walk.result.score = Frac(Cardinality(walk.pairs), Len(Expected))
            /\ walk.result.metadata.matched = Cardinality(walk.pairs)
            /\ walk.result.metadata.total = Len(Expected)

C5_Witness ==
  /\ ActualExhausted
  /\ ~toolConfig.requireAll
  /\ walk.pairs = {<<1, 2>>}
  /\ walk.result.score = Frac(1, 2)

\* the actual positions the walk passed without matching them, and those
\* left after every expected item matched
ExtraPositions ==
  ((1..walk.actualIndex) \ {p[2] : p \in walk.pairs})
  \cup (IF walk.expectedIndex = Len(Expected) /\ Len(Expected) > 0
        THEN (walk.actualIndex + 1)..Len(Actual) ELSE {})

RECURSIVE WithoutPositions(_, _, _)
\* list without the items at the positions in removed; i is the position of Head(list)
WithoutPositions(list, removed, i) ==
  IF list = <<>> THEN <<>>
  ELSE IF i \in removed THEN WithoutPositions(Tail(list), removed, i + 1)
  ELSE <<Head(list)>> \o WithoutPositions(Tail(list), removed, i + 1)

\* the score of the ordered scorer on the test case without the extra calls
ScoreWithoutExtras ==
  ToolCallScorer(WithOrdered(toolConfig, TRUE),
                 [toolOpts EXCEPT !.toolCalls = WithoutPositions(Actual, ExtraPositions, 1)]).score

\* C6: in ordered mode with allowExtras false, a call whose name differs
\* from the current expected item, or a call left after all expected items
\* matched, gives 0.0; with allowExtras true such a call is skipped (the
\* actual cursor alone advances) and the score is the one the call list
\* without those calls would get.
C6_ExtrasInOrderedMode ==
  /\ [][(InLoop /\ ~NameMatchesAtCursor) =>
          IF toolConfig.allowExtras
          THEN /\ walk'.pc = "loop"
               /\ walk'.result = NoResult
               /\ walk'.expectedIndex = walk.expectedIndex
               /\ walk'.actualIndex = walk.actualIndex + 1
          ELSE /\ walk'.pc = "done"
               /\ IsReturned(walk'.result)
               /\ walk'.result.score = Zero]_vars
  /\ [](walk.pc = "done" /\ IsReturned(walk.result) /\ Len(Expected) > 0 /\ Len(Actual) > 0 =>
          /\ (/\ ~toolConfig.allowExtras
              /\ walk.expectedIndex = Len(Expected)
              /\ walk.actualIndex < Len(Actual)) => walk.result.score = Zero
          /\ toolConfig.allowExtras => FracEq(walk.result.score, ScoreWithoutExtras))

C6_Witness ==
  /\ walk.pc = "done"
  /\ toolConfig.allowExtras
  /\ Len(Expected) = 1
  /\ Len(Actual) = 2
  /\ walk.pairs = {<<1, 2>>}
  /\ walk.result.score = One

\* C7: in unordered mode an actual call is consumed by at most one expected
\* item: the matched expected items are never more than the actual calls, so
\* a score of k/len(expected) needs k actual calls.
C7_UnorderedConsumesOnce ==
  (/\ scorer = "ToolCallScorer"
   /\ IsReturned(toolScore[FALSE])
   /\ Len(Expected) > 0
   /\ Len(Actual) > 0) =>
    LET u == UnorderedRemainder
        matchedCount == Len(Expected) - Len(u.remainingExpected)
    IN /\ matchedCount <= Len(Actual)
       /\ Len(u.remainingActual) = Len(Actual) - matchedCount
       /\ toolScore[FALSE].score.num * Len(Expected)
            <= Len(Actual) * toolScore[FALSE].score.den

C7_Witness ==
  /\ scorer = "ToolCallScorer"
  /\ IsReturned(toolScore[FALSE])
  /\ Len(Expected) = 2
  /\ Len(Actual) = 1
  /\ \A i \in 1..2 : ToolMatches(Options, Expected[i], Actual[1])
  /\ ~toolConfig.requireAll
  /\ toolScore[FALSE].score = Frac(1, 2)

\* C8: an expected tool without arguments matches any actual call of the
\* same name in ordered and in unordered mode, whatever the actual arguments
\* and the strategy, and the argument matcher is not called for it.
C8_NoArgumentsMatchesByName ==
  scorer = "ToolCallScorer" =>
    \A ordered \in BOOLEAN :
      IsReturned(toolScore[ordered]) =>
        /\ \A call \in toolScore[ordered].invoked : call.expected # Undefined
        /\ (/\ NameOnly
            /\ Len(Expected) = Len(Actual)
            /\ \A i \in 1..Len(Expected) : Expected[i].name = Actual[i].name)
             => toolScore[ordered].score = One

C8_Witness ==
  /\ scorer = "ToolCallScorer"
  /\ toolConfig.params = "strict"
  /\ NameOnly
  /\ Len(Expected) = 2
  /\ Len(Actual) = 2
  /\ \A i \in 1..2 : Actual[i].arguments = ArgQR
  /\ \A ordered \in BOOLEAN :
       IsReturned(toolScore[ordered]) /\ toolScore[ordered].score = One

\* C9: when expectedTools is empty or missing the score is 1.0, for every
\* actual call list and every configuration.
C9_NoExpectationsPass ==
  (scorer = "ToolCallScorer" /\ Len(Expected) = 0) =>
    \A ordered \in BOOLEAN :
      IsReturned(toolScore[ordered]) => toolScore[ordered].score = One

C9_Witness ==
  /\ scorer = "ToolCallScorer"
  /\ ~toolOpts.hasExpectedTools
  /\ Len(Actual) = 2
  /\ ~toolConfig.allowExtras
  /\ IsReturned(toolScore[TRUE])
  /\ toolScore[TRUE].score = One

\* a Score whose value is a number in [0,1] and whose matched and total, if
\* present, satisfy 0 <= matched <= total
WellFormedScore(r) ==
  /\ r.score.den > 0
  /\ 0 <= r.score.num
  /\ r.score.num <= r.score.den
  /\ "matched" \in DOMAIN r.metadata =>
       /\ "total" \in DOMAIN r.metadata
       /\ 0 <= r.metadata.matched
       /\ r.metadata.matched <= r.metadata.total

\* C10: every Score that ToolCallScorer or StructuredOutputScorer returns has
\* a value in [0,1], and 0 <= matched <= total when metadata carries them.
C10_ScoreInUnitInterval ==
  /\ \A ordered \in BOOLEAN :
       IsReturned(toolScore[ordered]) => WellFormedScore(toolScore[ordered])
  /\ IsReturned(soScore) => WellFormedScore(soScore)

C10_Witness ==
  /\ scorer = "ToolCallScorer"
  /\ IsReturned(toolScore[FALSE])
  /\ "matched" \in DOMAIN toolScore[FALSE].metadata
  /\ toolScore[FALSE].metadata.matched = 1
  /\ toolScore[FALSE].metadata.total = 2
  /\ Len(Actual) = 2

\* C11: every Score of value 0.0 that ToolCallScorer or
\* StructuredOutputScorer returns, whether a hard failure or partial credit
\* that comes to zero, has a metadata.rationale that is a non-empty string.
C11_ZeroScoreHasRationale ==
  /\ \A ordered \in BOOLEAN :
       (IsReturned(toolScore[ordered]) /\ FracEq(toolScore[ordered].score, Zero)) =>
         /\ "rationale" \in DOMAIN toolScore[ordered].metadata
         /\ Len(ToolRationaleText(toolScore[ordered].metadata.rationale)) > 0
  /\ (IsReturned(soScore) /\ FracEq(soScore.score, Zero)) =>
       /\ "rationale" \in DOMAIN soScore.metadata
       /\ Len(StructuredRationaleText(soScore.metadata.rationale)) > 0

\* partial credit that comes to zero, in unordered mode
C11_Witness ==
  /\ scorer = "ToolCallScorer"
  /\ ~toolConfig.requireAll
  /\ toolConfig.allowExtras
  /\ IsReturned(toolScore[FALSE])
  /\ toolScore[FALSE].score = Frac(0, 2)
  /\ "matched" \in DOMAIN toolScore[FALSE].metadata
  /\ ToolRationaleText(toolScore[FALSE].metadata.rationale)
       = "Missing required tool: format; Tool 'search' called but with incorrect arguments"

\* C12: when the output is not JSON, StructuredOutputScorer returns (does
\* not throw) the score 0.0, a rationale containing "Failed to parse output
\* as JSON" and metadata.output equal to the raw output, for every list of
\* expected fields (none included) and every configuration, and no field
\* comparison has been made.
C12_ParseFailureScoresZero ==
  (/\ scorer = "StructuredOutputScorer"
   /\ soScore # NoResult
   /\ JSONParse(soOpts.output) = ParseError) =>
    /\ IsReturned(soScore)
    /\ soScore.score = Zero
    /\ Includes(StructuredRationaleText(soScore.metadata.rationale),
                "Failed to parse output as JSON")
    /\ "output" \in DOMAIN soScore.metadata
    /\ soScore.metadata.output = soOpts.output
    /\ soScore.invoked = {}

C12_Witness ==
  /\ scorer = "StructuredOutputScorer"
  /\ soOpts.output = "{name: test}"
  /\ Len(soOpts.expected) = 2
  /\ soConfig.match = "valueIsNumber"
  /\ ~soConfig.requireAll
  /\ IsReturned(soScore)
  /\ soScore.score = Zero
  /\ soScore.metadata.output = "{name: test}"

\* C13: with match "strict" or "fuzzy" and expected values that are not
\* functions, StructuredOutputScorer returns a Score and never throws or
\* rejects, whatever the output string is and whatever JSON value it parses
\* to (object, array, string, number, boolean or null).
C13_NeverThrows ==
  (/\ scorer = "StructuredOutputScorer"
   /\ soConfig.match \in {"strict", "fuzzy"}
   /\ soScore # NoResult) => IsReturned(soScore)

\* the parsed output is an object holding the configured error field
HasErrorField ==
  /\ ~soConfig.errorField.isNull
  /\ JSONParse(soOpts.output) # ParseError
  /\ JSONParse(soOpts.output).t = "object"
  /\ soConfig.errorField.name \in DOMAIN JSONParse(soOpts.output).o

ErrorFieldValue == JSONParse(soOpts.output).o[soConfig.errorField.name]

\* C14: when the parsed output holds the error field (default name "error")
\* with a value that is neither null nor the empty string, the score is 0.0,
\* whatever the other output fields and the expected fields are.
C14_ErrorFieldFails ==
  (/\ scorer = "StructuredOutputScorer"
   /\ soScore # NoResult
   /\ HasErrorField
   /\ ErrorFieldValue # Null
   /\ ErrorFieldValue # Str(<<>>)) =>
    /\ IsReturned(soScore)
    /\ soScore.score = Zero

\* the expected fields of the test case and the parsed output
ExpectedFields == IF soOpts.hasExpected THEN soOpts.expected ELSE <<>>
Parsed == JSONParse(soOpts.output)

\* the positions of the expected fields whose value the configured matcher
\* rejects against the same-named field of the parsed output
MismatchedFields ==
  {i \in 1..Len(ExpectedFields) :
     ~fieldMatcher(soConfig, ExpectedFields[i].value,
                   Get(Parsed, ExpectedFields[i].key), ExpectedFields[i].key)}

\* the keys of the parsed output that are not expected
ExtraFields == Keys(Parsed) \ {ExpectedFields[i].key : i \in 1..Len(ExpectedFields)}

\* an output that parsed, without the error field, against expected fields
ComparableOutput ==
  /\ scorer = "StructuredOutputScorer"
  /\ soScore # NoResult
  /\ Parsed # ParseError
  /\ ~HasErrorField
  /\ Len(ExpectedFields) > 0

\* C15: for parsed output without an error field and non-empty expected
\* fields: with requireAll true a field whose value does not match (a field
\* missing from the output included) gives 0.0 and a rationale listing each
\* mismatched field as `field: expected X, got Y`; with requireAll false and
\* no disallowed extras the score is matchedFieldCount/totalExpectedFieldCount.
C15_RequireAllAndPartialCredit ==
  ComparableOutput =>
    /\ IsReturned(soScore)
    /\ (soConfig.requireAll /\ MismatchedFields # {}) =>
         /\ soScore.score = Zero
         /\ \A i \in MismatchedFields :
              Includes(StructuredRationaleText(soScore.metadata.rationale),
                       ExpectedFields[i].key \o ": expected "
                         \o formatValue(ExpectedFields[i].value) \o ", got "
                         \o formatValue(Get(Parsed, ExpectedFields[i].key)))
    /\ (~soConfig.requireAll /\ (soConfig.allowExtras \/ ExtraFields = {})) =>
         FracEq(soScore.score,
                Frac(Len(ExpectedFields) - Cardinality(MismatchedFields), Len(ExpectedFields)))

\* the same statement for the outputs that do not parse to null
FieldScoringOfNonNullOutput == (Parsed # Null) => C15_RequireAllAndPartialCredit

\* the parsed object without the fields that are not expected
WithoutExtraFields ==
  Obj([k \in DOMAIN Parsed.o \ ExtraFields |-> Parsed.o[k]])

\* the outputs of the model that are the output of the test case without
\* its extra fields
OutputsWithoutExtras ==
  IF Parsed # ParseError /\ Parsed.t = "object" /\ ExtraFields # {}
  THEN {o \in OutputTexts : JSONParse(o) = WithoutExtraFields}
  ELSE {}

\* what the scorer returns for the test case with another output
ScoreOfOutput(output) ==
  StructuredOutputScorer(soConfig, [soOpts EXCEPT !.output = output])

\* the error check of the scorer rejects the output
ErrorReported == HasErrorField /\ ~Falsy(ErrorFieldValue)

C17_StrictEqualsSymmetric ==
  (/\ cmp.expected \in DataValues
   /\ cmp.actual \in DataValues
   /\ cmp.strict[FALSE] # NoResult
   /\ cmp.strict[TRUE] # NoResult) =>
    cmp.strict[FALSE].value = cmp.strict[TRUE].value

\* actual is the object expected with one more key
IsSubsetPair ==
  /\ cmp.expected.t = "object"
  /\ cmp.actual.t = "object"
  /\ \E k \in DOMAIN cmp.actual.o \ DOMAIN cmp.expected.o :
       DOMAIN cmp.actual.o = DOMAIN cmp.expected.o \cup {k}
  /\ \A j \in DOMAIN cmp.expected.o : cmp.actual.o[j] = cmp.expected.o[j]

RECURSIVE IsPlain(_)
\* v holds no pattern, no function and no NaN at any depth
IsPlain(v) ==
  CASE v.t \in {"regexp", "function"} -> FALSE
    [] v.t = "number" -> "nan" \notin DOMAIN v
    [] v.t = "array" -> \A i \in 1..Len(v.a) : IsPlain(v.a[i])
    [] v.t = "object" -> \A k \in DOMAIN v.o : IsPlain(v.o[k])
    [] OTHER -> TRUE

IsToleranceCase ==
  /\ cmp.expected.t = "number"
  /\ cmp.actual.t = "number"
  /\ "nan" \notin DOMAIN cmp.expected
  /\ "nan" \notin DOMAIN cmp.actual
  /\ "numericTolerance" \in DOMAIN cmp.options
  /\ cmp.options.numericTolerance.num > 0
  /\ cmp.fuzzy[FALSE] # NoResult

C20_NullishIsIdentity ==
  (IsNullish(cmp.expected) \/ IsNullish(cmp.actual)) =>
    /\ cmp.strict[FALSE] # NoResult =>
         cmp.strict[FALSE].value = Identical(cmp.expected, cmp.actual)
    /\ cmp.fuzzy[FALSE] # NoResult =>
         cmp.fuzzy[FALSE].value = Identical(cmp.expected, cmp.actual)

\* two arrays compared by fuzzyMatch with ignoreArrayOrder in force
IsUnorderedArrayCase ==
  /\ cmp.expected.t = "array"
  /\ cmp.actual.t = "array"
  /\ Opt(cmp.options, "ignoreArrayOrder", TRUE)
  /\ cmp.fuzzy[FALSE] # NoResult

\* the one-to-one assignments of the expected items to actual items
Assignments(expected, actual) ==
  {f \in [1..Len(expected) -> 1..Len(actual)] :
     \A i, j \in 1..Len(expected) : f[i] = f[j] => i = j}

\* some assignment sends every expected item to an actual item it matches
HasAssignment(expected, actual, options) ==
  \E f \in Assignments(expected, actual) :
    \A i \in 1..Len(expected) : fuzzyMatch(expected[i], actual[f[i]], options)

IsFirstFit(f, expected, actual, options) ==
  \A i \in 1..Len(expected) :
    /\ fuzzyMatch(expected[i], actual[f[i]], options)
    /\ \A k \in 1..(f[i] - 1) :
         \/ \E j \in 1..(i - 1) : f[j] = k
         \/ ~fuzzyMatch(expected[i], actual[k], options)

\* C27: unordered fuzzy array matching is first-fit greedy: each expected
\* item, in order, takes the first not yet consumed actual item that
\* matches, and no assignment is revisited; the comparison is true exactly
\* when this first-fit assignment covers every expected item.  (That a
\* one-to-one assignment can exist while the comparison is false is the
\* state C27_Witness.)
C27_FirstFitGreedy ==
  IsUnorderedArrayCase =>
    (cmp.fuzzy[FALSE].value <=>
       \E f \in Assignments(cmp.expected.a, cmp.actual.a) :
         IsFirstFit(f, cmp.expected.a, cmp.actual.a, cmp.options))

C27_Witness ==
  /\ IsUnorderedArrayCase
  /\ HasAssignment(cmp.expected.a, cmp.actual.a, cmp.options)
  /\ cmp.fuzzy[FALSE] = Answer(FALSE)

\* one expected tool with arguments against one call of the same tool,
\* compared by ToolCallScorer({params: "fuzzy", ordered}) without fuzzyOptions
IsToolFuzzyDefaultCase(ordered) ==
  /\ scorer = "ToolCallScorer"
  /\ toolScore[ordered] # NoResult
  /\ toolConfig.params = "fuzzy"
  /\ toolConfig.fuzzyOptions = NoOptions
  /\ Len(Expected) = 1
  /\ Len(Actual) = 1
  /\ Expected[1].name = Actual[1].name
  /\ Expected[1].arguments # Undefined

\* the three settings the claim is about, each given explicitly
ThreeSettings(substring, caseInsensitive, ignoreArrayOrder) ==
  [substring |-> substring, caseInsensitive |-> caseInsensitive,
   ignoreArrayOrder |-> ignoreArrayOrder]

\* ToolCallScorer's fuzzy default compares as with all three settings on
ToolFuzzyDefaults ==
  \A ordered \in BOOLEAN :
    IsToolFuzzyDefaultCase(ordered) =>
      /\ IsReturned(toolScore[ordered])
      /\ (toolScore[ordered].score = One) <=>
           fuzzyMatch(Expected[1].arguments, ArgumentsOrEmpty(Actual[1]),
                      ThreeSettings(TRUE, TRUE, TRUE))

\* expected fields against a parsed object without error field, compared by
\* StructuredOutputScorer({match: "fuzzy"}) without fuzzyOptions into a
\* Score, extras leaving the score alone
IsStructuredFuzzyDefaultCase ==
  /\ ComparableOutput
  /\ IsReturned(soScore)
  /\ soConfig.match = "fuzzy"
  /\ soConfig.fuzzyOptions = NoOptions
  /\ (soConfig.allowExtras \/ ExtraFields = {})

\* the positions of the expected fields that fuzzyMatch rejects under options
FieldsRejectedUnder(options) ==
  {i \in 1..Len(ExpectedFields) :
     ~fuzzyMatch(ExpectedFields[i].value, Get(Parsed, ExpectedFields[i].key), options)}

\* StructuredOutputScorer's fuzzy default compares as with the given settings
StructuredFuzzyDefaults(options) ==
  IsStructuredFuzzyDefaultCase =>
    /\ IsReturned(soScore)
    /\ (soScore.score = One) <=> (FieldsRejectedUnder(options) = {})

\* C22 as stated: ToolCallScorer({params: "fuzzy"}) without fuzzyOptions
\* compares strings case-insensitively with substring tolerance and arrays
\* without regard to order, while StructuredOutputScorer({match: "fuzzy"})
\* without fuzzyOptions enables none of the three.
C22_DefaultsDependOnMatcher ==
  /\ ToolFuzzyDefaults
  /\ StructuredFuzzyDefaults(ThreeSettings(FALSE, FALSE, FALSE))

\* C22, amended: ToolCallScorer's fuzzy default enables all three settings;
\* StructuredOutputScorer's fuzzy default leaves substring tolerance off but
\* compares strings case-insensitively and arrays without regard to order.
C22_OnlySubstringDiffers ==
  /\ ToolFuzzyDefaults
  /\ StructuredFuzzyDefaults(ThreeSettings(FALSE, TRUE, TRUE))

\* StructuredOutputScorer at work on outputs that tell the settings apart:
\* the output that differs from the expected name by case only scores 1,
\* the output whose name contains the expected one scores 0; the tool
\* arguments of the model match only with all three settings on
C22_Witness ==
  /\ IsStructuredFuzzyDefaultCase
  /\ ExpectedFields = <<[key |-> "name", value |-> Str(<<"t", "e", "s", "t">>)]>>
  /\ soOpts.output = "{\"name\":\"Test\",\"value\":42}"
  /\ soScore.score = One
  /\ ScoreOfOutput("{\"name\":\"tester\",\"tags\":[\"a\",\"b\"],\"enabled\":\"true\"}").score = Zero
  /\ fuzzyMatch(ArgQ, ArgQR, ToolDefaultFuzzyOptions)
  /\ ~fuzzyMatch(ArgQ, ArgQR, ThreeSettings(FALSE, TRUE, TRUE))
  /\ ~fuzzyMatch(ArgQ, ArgQR, ThreeSettings(TRUE, FALSE, TRUE))
  /\ ~fuzzyMatch(ArgQ, ArgQR, ThreeSettings(TRUE, TRUE, FALSE))

\* C23: StructuredOutputScorer({match: "fuzzy"}) without fuzzyOptions allows
\* type coercion: an expected number matches a numeric string of the same
\* value (42 against "42"), an expected true matches the string "true", and
\* an output that differs from expected only by such coercions scores 1.0.
C23_FuzzyDefaultCoerces ==
  IsStructuredFuzzyDefaultCase =>
    /\ IsReturned(soScore)
    /\ (FieldsRejectedUnder([coerceTypes |-> TRUE]) = {}) => soScore.score = One

\* the exception of the first comparison of the ordered walk, NoError if the
\* walk does not start with a comparison that throws
FirstOrderedComparisonError ==
  IF /\ Len(Expected) > 0
     /\ Len(Actual) > 0
     /\ Expected[1].name = Actual[1].name
     /\ Expected[1].arguments # Undefined
  THEN argMatcherError(Options, Expected[1].arguments, ArgumentsOrEmpty(Actual[1]))
  ELSE NoError

\* the exception of the first comparison of the unordered loop, which takes
\* the last expected tool first and scans the calls from the first on
FirstUnorderedComparisonError ==
  IF Len(Expected) > 0 /\ Expected[Len(Expected)].arguments # Undefined
  THEN LET sameName == {j \in 1..Len(Actual) : Actual[j].name = Expected[Len(Expected)].name}
       IN IF sameName = {} THEN NoError
          ELSE argMatcherError(Options, Expected[Len(Expected)].arguments,
                 ArgumentsOrEmpty(Actual[CHOOSE j \in sameName : \A k \in sameName : j <= k]))
  ELSE NoError

\* the exceptions of the field comparisons, in the order of the expected fields
FieldComparisonErrors ==
  [i \in 1..Len(ExpectedFields) |->
     fieldMatcherError(soConfig, ExpectedFields[i].value,
                       Get(Parsed, ExpectedFields[i].key), ExpectedFields[i].key)]

\* the parsed output reaches the loop over the expected fields
ReachesFieldComparison ==
  /\ Parsed # ParseError
  /\ Len(ExpectedFields) > 0
  /\ ~IsNullish(Parsed)
  /\ ~ErrorReported

ValidatorErrorReached ==
  /\ scorer = "StructuredOutputScorer"
  /\ soConfig.match = "fuzzy"
  /\ ExpectedFields = <<[key |-> "name", value |-> Fn("nonEmpty")]>>
  /\ soOpts.output = "{}"
  /\ soScore = Threw("Error: absent")

\* the words of a text: its pieces between white space, line breaks counted
\* as white space, the empty pieces dropped
WordsOf(text) ==
  LET spaced == [i \in 1..Len(text) |-> IF text[i] = LineBreak THEN Space ELSE text[i]]
      pieces == SplitOnSpaces(spaced)
  IN SelectSeq(pieces, LAMBDA w : w # <<>>)

\* the lines of a wrapped text
LinesOf(text) ==
  LET broken == [i \in 1..Len(text) |->
                   IF text[i] = LineBreak THEN Space
                   ELSE IF text[i] = Space THEN "_" ELSE text[i]]
  IN SplitOnSpaces(broken)

IsSeparator(c) == c \in {Space, LineBreak}

\* a text longer than the width whose words all fit the width has been wrapped
IsWrapCase ==
  /\ scorer = "wrapText"
  /\ wrap.result # NoResult
  /\ Len(wrap.text) > wrap.width
  /\ \A i \in 1..Len(WordsOf(wrap.text)) : Len(WordsOf(wrap.text)[i]) <= wrap.width

\* the result has the words of the text in their order, separated by single
\* spaces or line breaks only, and every line is non-empty and fits the width
WellWrapped ==
  LET result == wrap.result.value
  IN /\ WordsOf(result) = WordsOf(wrap.text)
     /\ \A i \in 1..Len(result) :
          IsSeparator(result[i]) =>
            /\ i > 1
            /\ i < Len(result)
            /\ ~IsSeparator(result[i + 1])
     /\ \A i \in 1..Len(LinesOf(result)) :
          /\ LinesOf(result)[i] # <<>>
          /\ Len(LinesOf(result)[i]) <= wrap.width

\* C28: for a text longer than width whose words are each at most width
\* characters long, wrapText returns the same words in the same order
\* separated only by single spaces or newlines, every line non-empty and at
\* most width characters long.
C28_WrapTextKeepsWords == IsWrapCase => WellWrapped

\* the same for the texts that do not begin or end with white space and whose
\* first word is shorter than the width
WrapsTextWithShortFirstWord ==
  (/\ IsWrapCase
   /\ wrap.text[1] # Space
   /\ wrap.text[Len(wrap.text)] # Space
   /\ Len(WordsOf(wrap.text)[1]) < wrap.width) => WellWrapped

\* the scorers of the test body by position
ScorerPositions == 1..Len(ev.scorers)

\* the test body has assigned testTask.meta.eval
AggregateRecorded == scorer = "describeEval" /\ ev.meta.set

\* a scorer of the test body has failed: thrown in its call or rejected
SomeScorerFailed ==
  \/ \E i \in 1..Len(ev.promise) : ev.promise[i] = "rejected"
  \/ /\ ev.pc = "done"
     /\ Len(ev.promise) < Len(ev.seen)

\* C25: in describeEval every scorer is started on the same task output
\* before any scorer result is awaited; aggregation (avgScore, meta.eval, the
\* threshold assertion) happens only after all scorers have completed; the
\* i-th collected score is the result of the i-th scorer whatever order the
\* scorers complete in; if any scorer fails, no aggregate is recorded.
C25_ScorersRunTogether ==
  scorer = "describeEval" =>
    /\ (ev.pc = "await" \/ AggregateRecorded) =>
         /\ Len(ev.seen) = Len(ev.scorers)
         /\ \A i \in ScorerPositions : ev.seen[i] = ev.output
    /\ (ev.pc = "map" /\ Len(ev.seen) < Len(ev.scorers)) =>
         \A i \in 1..Len(ev.promise) : ~ev.scorers[i].sync => ev.promise[i] = "pending"
    /\ AggregateRecorded =>
         /\ \A i \in ScorerPositions : ev.promise[i] = "fulfilled"
         /\ Len(ev.order) = Len(ev.scorers)
         /\ Len(ev.collected) = Len(ev.scorers)
         /\ \A i \in ScorerPositions : ev.collected[i] = ev.scorers[i].outcome.score
    /\ SomeScorerFailed => ~ev.meta.set
    /\ ev.test = "passed" => ev.meta.set

\* two scorers that finished in the reverse of their order, with different
\* scores, and the aggregate recorded
C25_Witness ==
  /\ AggregateRecorded
  /\ Len(ev.scorers) = 2
  /\ ev.order = <<2, 1>>
  /\ ev.collected = <<NumberScore(1, 1), NumberScore(0, 1)>>

\* twice the sum of (score ?? 0) over the scorers, counted by score
TwiceTheSum ==
  2 * Cardinality({i \in ScorerPositions : ev.scorers[i].outcome.score = NumberScore(1, 1)})
    + Cardinality({i \in ScorerPositions : ev.scorers[i].outcome.score = NumberScore(1, 2)})

\* avgScore is the arithmetic mean of (score ?? 0) over the scorer results
AvgIsTheMean ==
  IF Len(ev.scorers) = 0 THEN ev.meta.avgScore.den = 0
  ELSE FracEq(ev.meta.avgScore, Frac(TwiceTheSum, 2 * Len(ev.scorers)))

\* a threshold is set: neither null nor zero (1.0 when left out)
ThresholdSet == ev.threshold.given \in {"undefined", "number"} /\ ~(ev.threshold.given = "number" /\ ev.threshold.num = 0)

\* the threshold in force
ThresholdInForce ==
  IF ev.threshold.given = "undefined" THEN Frac(1, 1)
  ELSE Frac(ev.threshold.num, ev.threshold.den)

\* C26: describeEval computes avgScore as the arithmetic mean of (score ?? 0)
\* over all scorer results, a returned Score and a promised Score alike and a
\* null score counting as 0; the test fails exactly when a threshold is set
\* (non-null, non-zero) and avgScore < threshold; toEval passes exactly when
\* (score ?? 0) >= threshold (default 1.0).
C26_AverageAndThreshold ==
  scorer = "describeEval" =>
    /\ AggregateRecorded =>
         /\ AvgIsTheMean
         /\ (ev.test = "failed") <=>
              (ThresholdSet /\ FracLess(ev.meta.avgScore, ThresholdInForce))
    /\ IsReturned(ev.toEval) =>
         (ev.toEval.value <=>
            FracGeq(OrZero(ev.scorers[1].outcome.score), ThresholdInForce))

\* the same for test bodies with at least one scorer
AverageAndThresholdWithScorers == Len(ev.scorers) > 0 => C26_AverageAndThreshold

\* C29: after a describeEval test body has run, task.meta.eval.scores lists
\* the scorer results in scorer declaration order (scores[i].name is
\* scorers[i].name for every i); checking the threshold and building the
\* failure message with formatScores leaves the order of the array unchanged.
C29_ScoresKeepDeclarationOrder ==
  AggregateRecorded =>
    /\ Len(ev.meta.scores) = Len(ev.scorers)
    /\ \A i \in ScorerPositions : ev.meta.scores[i].name = ev.scorers[i].name

\* the same for the test bodies that do not call formatScores
OrderKeptWithoutThreshold ==
  (AggregateRecorded /\ ~ThresholdSet) => C29_ScoresKeepDeclarationOrder

\* whatever the order, meta.eval.scores holds each scorer's result once
ScoresArePermuted ==
  AggregateRecorded =>
    \A i \in ScorerPositions :
      Cardinality({k \in 1..Len(ev.meta.scores) :
                     ev.meta.scores[k] = [name |-> ev.scorers[i].name,
                                          score |-> ev.scorers[i].outcome.score]}) = 1

\* an iteration of the loop is being made
LoopIteration == InLoop /\ walk' # walk

\* the bounds of the two cursors
CursorsInRange ==
  /\ 0 <= walk.expectedIndex
  /\ walk.expectedIndex <= walk.actualIndex
  /\ walk.actualIndex <= Len(Actual)
  /\ walk.expectedIndex <= Len(Expected)

\* the walk is over within len(actual) iterations, and the matched count it
\* reports is the expected cursor
EndsWithinActual ==
  /\ walk.iterations <= Len(Actual)
  /\ Cardinality(walk.pairs) = walk.expectedIndex
  /\ (walk.pc = "done" /\ walk.iterations > 0 /\ IsReturned(walk.result)
        /\ "matched" \in DOMAIN walk.result.metadata) =>
       walk.result.metadata.matched = walk.expectedIndex

\* the iteration leaves the cursors for the next iteration, the actual one
\* moved on by one
AdvancesActualCursor ==
  /\ walk'.pc = "loop"
  /\ walk'.result = NoResult
  /\ walk'.actualIndex = walk.actualIndex + 1
  /\ walk'.expectedIndex \in {walk.expectedIndex, walk.expectedIndex + 1}

\* C30 as stated: the ordered walk always terminates: every loop iteration
\* either returns a Score or advances the actual cursor by exactly one; 0 <=
\* expectedIndex <= actualIndex <= len(actual) and expectedIndex <=
\* len(expected) hold in every state; the walk ends after at most len(actual)
\* iterations with matched = expectedIndex.
C30_OrderedWalkTerminates ==
  /\ [][LoopIteration =>
          \/ walk'.pc = "done" /\ IsReturned(walk'.result)
          \/ AdvancesActualCursor]_vars
  /\ [](scorer = "ToolCallScorer" => CursorsInRange /\ EndsWithinActual)
  /\ <>(walk.pc = "done")

\* C30, amended: every loop iteration returns a Score, ends the call with
\* the exception of the argument matcher, or advances the actual cursor by
\* exactly one; the bounds on the cursors hold in every state; the walk ends
\* after at most len(actual) iterations, and a Score it returns has matched =
\* expectedIndex.
C30_OrderedWalkEnds ==
  /\ [][LoopIteration =>
          \/ walk'.pc = "done" /\ IsReturned(walk'.result)
          \/ walk'.pc = "done" /\ walk'.result.status = "threw"
          \/ AdvancesActualCursor]_vars
  /\ [](scorer = "ToolCallScorer" => CursorsInRange /\ EndsWithinActual)
  /\ <>(walk.pc = "done")

\* a walk that skipped a call, matched one and ended with the loop, having
\* made as many iterations as there are calls
C30_Witness ==
  /\ walk.pc = "done"
  /\ Len(Actual) = 2
  /\ walk.iterations = 2
  /\ walk.pairs = {<<1, 2>>}
  /\ walk.actualIndex = 2
  /\ IsReturned(walk.result)

====
